---------------------------- MODULE Spec2Model ----------------------------
(***************************************************************************)
(* Zonal gateway diagnostic / OTA engine (AURIX TC375 Lite Kit).           *)
(*                                                                         *)
(* The repository holds two implementations of the download services      *)
(* 0x34/0x36/0x37 under the same symbol names: Libraries/DoIP/             *)
(* uds_download.c (download session + MCU_Flash) and the tail of           *)
(* Libraries/DoIP/uds_handler.c (OTA manager + FlashBank).  A build links  *)
(* one of them; the variable build records which.                          *)
(***************************************************************************)
EXTENDS Integers, Sequences, FiniteSets, TLC

VARIABLES
    build,      \* which implementation of 0x34/0x36/0x37 is linked
    dl,         \* g_download_session                 (uds_download.c:27)
    ota,        \* g_ota_state, sizes, g_zone_header  (ota_manager.c:24-29)
    pkg,        \* bytes the tester streams / that sit in staging storage
    flash,      \* contents of the two program banks
    active,     \* bank the device is running from
    marker,     \* persisted boot-bank selector / status
    req,        \* request handled last
    resp,       \* response produced for it
    io,         \* what the last handler did to the program banks
    crcIn,      \* checksum study: staged container bytes past offset 0x100
    codec,      \* framing study: response, wire bytes, rx buffer, deliveries
    link,       \* one DoIPLink and the outcome of the last operation on it
    dist,       \* distribution study: container table and the outcome of a run
    clients,    \* g_client_contexts and the outcome of the last client call
    stream      \* receive study: inbound bytes, rx_buffer and the deliveries

vars == << build, dl, ota, pkg, flash, active, marker, req, resp, io, crcIn, codec, link,
           dist, clients, stream >>

-----------------------------------------------------------------------------
(* Bounds of the model *)

\* length of the firmware images and staged regions, in bytes
MaxFw == 2
\* staging read buffer (4096 bytes in the code), scaled
ChunkSize == 2
\* longest checksummed container body, in bytes
MaxBody == 3
\* longest response data of the framing study
MaxData == 2
\* scaled capacity of a request's data
MaxReq == 2
\* scaled capacity of the link's receive buffer
RxCap == 16
\* length of the data blocks that follow the header block
BlockLen == 192
\* one-byte blocks of the long download
LongBlocks == 257
MaxOta == 4
\* longest target table of a distributed container
MaxTargets == 3
\* longest payload of a message of the inbound stream
MaxPayload == 2
\* messages of the inbound stream
MaxMessages == 2
\* requests of the client pool's callers outstanding at a time
MaxOutstanding == 2
\* most dependencies of a metadata block and most devices of the inventory
MaxDeps == 2
MaxInventory == 2

(* Program constants *)

SW_HEADER_SIZE == 64
MAX_BLOCK_LENGTH == 256
SPI_FLASH_ECU_091_START == 0
SPI_FLASH_ECU_011_START == 4194304
SPI_FLASH_ECU_012_START == 8388608
SPI_FLASH_ECU_013_START == 12582912

(* Service identifiers and negative response codes (uds_handler.h) *)

UDS_SID_REQUEST_DOWNLOAD == 52
UDS_SID_TRANSFER_DATA == 54
UDS_SID_REQUEST_TRANSFER_EXIT == 55
UDS_SID_NEGATIVE_RESPONSE == 127
UDS_POSITIVE_RESPONSE_OFFSET == 64
UDS_NRC_SERVICE_NOT_SUPPORTED == 17
UDS_NRC_INCORRECT_MESSAGE_LENGTH == 19
UDS_NRC_CONDITIONS_NOT_CORRECT == 34
UDS_NRC_REQUEST_SEQUENCE_ERROR == 36
UDS_NRC_REQUEST_OUT_OF_RANGE == 49
UDS_NRC_UPLOAD_DOWNLOAD_NOT_ACCEPTED == 112
UDS_NRC_TRANSFER_DATA_SUSPENDED == 113
UDS_NRC_GENERAL_PROGRAMMING_FAILURE == 114
UDS_NRC_WRONG_BLOCK_SEQUENCE_COUNTER == 115

Byte == 0 .. 255

Min(a, b) == IF a < b THEN a ELSE b

-----------------------------------------------------------------------------
(* 32-bit words as two 16-bit halves (TLC integers are 32-bit signed) *)

RECURSIVE XorBits(_, _, _)
XorBits(a, b, n) ==
    IF n = 0 THEN 0
    ELSE (((a % 2) + (b % 2)) % 2) + 2 * XorBits(a \div 2, b \div 2, n - 1)

W(hi, lo) == [hi |-> hi, lo |-> lo]
WXor(x, y) == W(XorBits(x.hi, y.hi, 16), XorBits(x.lo, y.lo, 16))
WShr1(x) == W(x.hi \div 2, (x.lo \div 2) + (x.hi % 2) * 32768)
WNot(x) == W(65535 - x.hi, 65535 - x.lo)

CRC_SEED == W(65535, 65535)
CRC_POLY == W(60856, 33568)     \* 0xEDB88320

RECURSIVE CrcBits(_, _)
CrcBits(crc, j) ==
    IF j = 0 THEN crc
    ELSE CrcBits(IF crc.lo % 2 = 1 THEN WXor(WShr1(crc), CRC_POLY) ELSE WShr1(crc),
                 j - 1)

RECURSIVE CrcBytes(_, _, _)
CrcBytes(crc, data, i) ==
    IF i > Len(data) THEN crc
    ELSE CrcBytes(CrcBits(WXor(crc, W(0, data[i])), 8), data, i + 1)

CRC32_Calculate(data) == WNot(CrcBytes(CRC_SEED, data, 1))


-----------------------------------------------------------------------------
(* Requests and responses (UDS_Request / UDS_Response) *)

\* data: the leading bytes a handler indexes; data_len: the whole length
Request(sid, data, len) == [service_id |-> sid, data |-> data, data_len |-> len]

NoRequest == Request(0, << >>, 0)

NoResponse == [is_positive |-> FALSE, service_id |-> 0, nrc |-> 0, data |-> << >>]

UDS_CreateNegativeResponse(rq, nrc) ==
    [is_positive |-> FALSE, service_id |-> UDS_SID_NEGATIVE_RESPONSE,
     nrc |-> nrc, data |-> << rq.service_id, nrc >>]

UDS_CreatePositiveResponse(rq, data) ==
    [is_positive |-> TRUE,
     service_id |-> (rq.service_id + UDS_POSITIVE_RESPONSE_OFFSET) % 256,
     nrc |-> 0, data |-> data]

-----------------------------------------------------------------------------
(* Program banks, boot selector (mcu_flash_programming.h, FlashBankManager.h) *)

Banks == {"A", "B"}

OtherBank(b) == IF b = "A" THEN "B" ELSE "A"

ErasedBank == [meta |-> "erased", fw |-> << >>]

FactoryBank == [meta |-> "factory", fw |-> << >>]

NoIo == [erased |-> {}, written |-> {}, verified |-> FALSE, committed |-> FALSE,
         attempt |-> FALSE, failed |-> FALSE, standby |-> "A"]

MCU_FlashBank_GetStandby == OtherBank(active)

\* the bank an MCU flash address lies in: addresses are (bank, offset) pairs
MCU_FlashBank_GetAddress(bank) == bank

\* erased flash reads 0xFF
StagingRead(image, n) == [i \in 1 .. n |-> IF i <= Len(image) THEN image[i] ELSE 255]

\* MCU_Flash_CopyFromSPI: programs size bytes of staging into the bank at
\* target; written < size is a programming failure after written bytes
MCU_Flash_CopyFromSPI(image, target, size, written) ==
    [bank |-> [meta |-> "raw", fw |-> SubSeq(StagingRead(image, size), 1, written)],
     ok |-> written = size]

\* MCU_Flash_VerifyCRC32: CRC-32 of the bank region against the declared value
MCU_Flash_VerifyCRC32(bank, size, crc) ==
    /\ Len(bank.fw) >= size
    /\ CRC32_Calculate(SubSeq(bank.fw, 1, size)) = crc

\* MCU_FlashBank_RequestUpdate: persists the pending switch to the standby bank
MCU_FlashBank_RequestUpdate(m, standby) ==
    [m EXCEPT !.bootTarget = standby, !.pending = TRUE]

-----------------------------------------------------------------------------
(* Software package header carried by block 1 (software_package.h) *)

ECU_ID_ZGW == "ECU_ID_ZGW"
ECU_ID_ZONE_1 == "ECU_ID_ZONE_1"
ECU_ID_ZONE_2 == "ECU_ID_ZONE_2"
ECU_ID_ZONE_3 == "ECU_ID_ZONE_3"

NoHeader == [magic_ok |-> FALSE, verify_ok |-> FALSE, target_ecu_id |-> "NONE",
             payload_size |-> 0, crc32 |-> W(0, 0)]

SoftwarePackage_ParseHeader(hdr) == hdr.magic_ok

SoftwarePackage_VerifyHeader(hdr) == hdr.verify_ok

SoftwarePackage_IsForThisECU(hdr) == hdr.target_ecu_id = ECU_ID_ZGW

-----------------------------------------------------------------------------
(* Download session, uds_download.c *)

DlInit ==
    [state |-> "IDLE", is_active |-> FALSE,
     flash_start_address |-> 0, flash_current_address |-> 0,
     total_bytes_expected |-> 0, total_bytes_received |-> 0,
     block_sequence_counter |-> 0, max_block_length |-> 0,
     header_received |-> FALSE, spi_staging_address |-> 0,
     target_ecu_id |-> "NONE", is_for_this_ecu |-> FALSE, sw_header |-> NoHeader]

\* the shift left out
ShiftInByte_NoShift(x, b) == (x + b) % 256

\* (x << 8) | b on uint32
ShiftInByte(x, b) == ((x % 16777216) * 256) + b

RECURSIVE ParseBigEndian(_, _, _, _)
ParseBigEndian(data, from, n, acc) ==
    IF n = 0 THEN acc
    ELSE ParseBigEndian(data, from + 1, n - 1, ShiftInByte(acc, data[from]))

Out(d, r) == [dl |-> d, resp |-> r]

\* the active check left out
SessionBusy_Never(s) == FALSE

\* if (g_download_session.is_active)
SessionBusy(s) == s.is_active

DL_RequestDownload(s, rq) ==
    IF SessionBusy(s)
    THEN Out(s, UDS_CreateNegativeResponse(rq, UDS_NRC_CONDITIONS_NOT_CORRECT))
    ELSE IF rq.data_len < 3
    THEN Out(s, UDS_CreateNegativeResponse(rq, UDS_NRC_INCORRECT_MESSAGE_LENGTH))
    ELSE LET addr_len_format == rq.data[2]
             address_len == addr_len_format % 16
             size_len == (addr_len_format \div 16) % 16
         IN  IF rq.data_len < 2 + address_len + size_len
             THEN Out(s, UDS_CreateNegativeResponse(rq, UDS_NRC_INCORRECT_MESSAGE_LENGTH))
             ELSE LET memory_address == ParseBigEndian(rq.data, 3, address_len, 0)
                      memory_size == ParseBigEndian(rq.data, 3 + address_len, size_len, 0)
                      d == [s EXCEPT !.state = "REQUESTED",
                                     !.flash_start_address = memory_address,
                                     !.flash_current_address = memory_address,
                                     !.total_bytes_expected = memory_size,
                                     !.total_bytes_received = 0,
                                     !.block_sequence_counter = 1,
                                     !.max_block_length = MAX_BLOCK_LENGTH,
                                     !.is_active = TRUE,
                                     !.header_received = FALSE,
                                     !.spi_staging_address = 0]
                  IN  Out(d, UDS_CreatePositiveResponse(rq,
                             << 32, (d.max_block_length \div 256) % 256,
                                d.max_block_length % 256 >>))


\* Flash_EraseArea and Flash_WriteData are stubs in this file
Flash_EraseArea(address, size) == TRUE

Flash_WriteData(address, length) == length # 0

StagingAddressOf(ecu) ==
    CASE ecu = ECU_ID_ZGW    -> SPI_FLASH_ECU_091_START
      [] ecu = ECU_ID_ZONE_1 -> SPI_FLASH_ECU_011_START
      [] ecu = ECU_ID_ZONE_2 -> SPI_FLASH_ECU_012_START
      [] ecu = ECU_ID_ZONE_3 -> SPI_FLASH_ECU_013_START
      [] OTHER               -> -1

\* the wrap to 1 left out
NextBlockCounter_NoSkip(c) == (c + 1) % 256

NextBlockCounter(c) ==
    LET n == (c + 1) % 256 IN IF n = 0 THEN 1 ELSE n

\* the tail of UDS_Service_TransferData (lines 406-433); the progress log
\* divides by total_bytes_expected, undefined when that is 0: ub chooses
\* between carrying on and a trap that answers nothing
DL_AcceptBlock(s, rq, block_counter, ub) ==
    LET d == [s EXCEPT !.block_sequence_counter = NextBlockCounter(s.block_sequence_counter),
                       !.state = "TRANSFERRING"]
        logs == \/ block_counter % 10 = 0
                \/ d.total_bytes_received >= d.total_bytes_expected
    IN  IF logs /\ d.total_bytes_expected = 0 /\ ub = "trap"
        THEN Out(d, NoResponse)
        ELSE Out(d, UDS_CreatePositiveResponse(rq, << block_counter >>))

\* the sequence check left out
BlockMismatch_Never(block_counter, expected) == FALSE

\* if (block_counter != g_download_session.block_sequence_counter)
BlockMismatch(block_counter, expected) == block_counter # expected

\* the overflow check left out
Overflows_Never(received, data_len, expected) == FALSE

\* if (total_bytes_received + data_len > total_bytes_expected)
Overflows(received, data_len, expected) == received + data_len > expected

\* the active check of the transfer handlers left out
NoSession_Never(s) == FALSE

\* if (!g_download_session.is_active)
NoSession(s) == ~s.is_active

DL_TransferData(s, rq, hdr, ub) ==
    IF NoSession(s)
    THEN Out(s, UDS_CreateNegativeResponse(rq, UDS_NRC_REQUEST_SEQUENCE_ERROR))
    ELSE IF rq.data_len < 2
    THEN Out(s, UDS_CreateNegativeResponse(rq, UDS_NRC_INCORRECT_MESSAGE_LENGTH))
    ELSE
    LET block_counter == rq.data[1]
        data_len == rq.data_len - 1
    IN
    IF BlockMismatch(block_counter, s.block_sequence_counter)
    THEN Out(s, UDS_CreateNegativeResponse(rq, UDS_NRC_WRONG_BLOCK_SEQUENCE_COUNTER))
    ELSE IF block_counter = 1 /\ ~s.header_received
    THEN
        IF data_len < SW_HEADER_SIZE
        THEN Out(s, UDS_CreateNegativeResponse(rq, UDS_NRC_INCORRECT_MESSAGE_LENGTH))
        ELSE IF ~SoftwarePackage_ParseHeader(hdr)
        THEN Out(s, UDS_CreateNegativeResponse(rq, UDS_NRC_GENERAL_PROGRAMMING_FAILURE))
        ELSE IF ~SoftwarePackage_VerifyHeader(hdr)
        THEN Out([s EXCEPT !.sw_header = hdr],
                 UDS_CreateNegativeResponse(rq, UDS_NRC_GENERAL_PROGRAMMING_FAILURE))
        ELSE
        LET s1 == [s EXCEPT !.sw_header = hdr,
                            !.header_received = TRUE,
                            !.target_ecu_id = hdr.target_ecu_id,
                            !.is_for_this_ecu = SoftwarePackage_IsForThisECU(hdr)]
            staging == StagingAddressOf(s1.target_ecu_id)
        IN
        IF staging < 0
        THEN Out(s1, UDS_CreateNegativeResponse(rq, UDS_NRC_REQUEST_OUT_OF_RANGE))
        ELSE
        LET s2 == [s1 EXCEPT !.spi_staging_address = staging,
                             !.flash_start_address = staging,
                             !.flash_current_address = staging]
        IN
        IF ~Flash_EraseArea(s2.spi_staging_address, s2.sw_header.payload_size)
        THEN Out(s2, UDS_CreateNegativeResponse(rq, UDS_NRC_GENERAL_PROGRAMMING_FAILURE))
        ELSE IF ~Flash_WriteData(s2.flash_current_address, data_len)
        THEN Out([s2 EXCEPT !.state = "ERROR"],
                 UDS_CreateNegativeResponse(rq, UDS_NRC_GENERAL_PROGRAMMING_FAILURE))
        ELSE DL_AcceptBlock(
                 [s2 EXCEPT !.flash_current_address = @ + data_len,
                            !.total_bytes_received = @ + data_len],
                 rq, block_counter, ub)
    ELSE
        IF ~s.header_received
        THEN Out(s, UDS_CreateNegativeResponse(rq, UDS_NRC_REQUEST_SEQUENCE_ERROR))
        ELSE IF Overflows(s.total_bytes_received, data_len, s.total_bytes_expected)
        THEN Out(s, UDS_CreateNegativeResponse(rq, UDS_NRC_TRANSFER_DATA_SUSPENDED))
        ELSE IF ~Flash_WriteData(s.flash_current_address, data_len)
        THEN Out([s EXCEPT !.state = "ERROR"],
                 UDS_CreateNegativeResponse(rq, UDS_NRC_GENERAL_PROGRAMMING_FAILURE))
        ELSE DL_AcceptBlock(
                 [s EXCEPT !.flash_current_address = @ + data_len,
                           !.total_bytes_received = @ + data_len],
                 rq, block_counter, ub)


\* outcome of UDS_Service_RequestTransferExit: session, response, banks,
\* selector and what was done to the banks; written is the number of bytes
\* MCU_Flash_CopyFromSPI programs before it returns, flagOk whether
\* MCU_FlashBank_RequestUpdate persists the marker
ExitOut(d, r, f, m, i) == [dl |-> d, resp |-> r, flash |-> f, marker |-> m, io |-> i]

DL_SelfUpdate(s, rq, image, f, m, standby_bank, written, flagOk) ==
    LET mcu_target_address == MCU_FlashBank_GetAddress(standby_bank)
        size == s.sw_header.payload_size
        copy == MCU_Flash_CopyFromSPI(image, mcu_target_address, size,
                                      Min(written, size))
        f1 == [f EXCEPT ![mcu_target_address] = copy.bank]
        i1 == [NoIo EXCEPT !.attempt = TRUE, !.standby = standby_bank,
                           !.erased = {mcu_target_address},
                           !.written = {mcu_target_address}]
        gpf == UDS_CreateNegativeResponse(rq, UDS_NRC_GENERAL_PROGRAMMING_FAILURE)
        err == [s EXCEPT !.state = "ERROR"]
    IN
    IF ~copy.ok
    THEN ExitOut(err, gpf, f1, m, [i1 EXCEPT !.failed = TRUE])
    ELSE IF ~MCU_Flash_VerifyCRC32(f1[mcu_target_address], size, s.sw_header.crc32)
    THEN ExitOut(err, gpf, f1, m, [i1 EXCEPT !.failed = TRUE])
    ELSE IF ~flagOk
    THEN ExitOut(err, gpf, f1, m, [i1 EXCEPT !.verified = TRUE, !.failed = TRUE])
    ELSE ExitOut([s EXCEPT !.state = "COMPLETED", !.is_active = FALSE],
                 UDS_CreatePositiveResponse(rq, << >>),
                 f1, MCU_FlashBank_RequestUpdate(m, standby_bank),
                 [i1 EXCEPT !.verified = TRUE, !.committed = TRUE])

\* UDS_Download_RouteToZoneECU: a stub that reports success
UDS_Download_RouteToZoneECU(target_ecu_id, address, size) == TRUE

\* the size check left out
SizeMismatch_Never(received, expected) == FALSE

\* if (total_bytes_received != total_bytes_expected)
SizeMismatch(received, expected) == received # expected

DL_RequestTransferExit(s, rq, image, f, m, standby_bank, written, flagOk) ==
    IF NoSession(s)
    THEN ExitOut(s, UDS_CreateNegativeResponse(rq, UDS_NRC_REQUEST_SEQUENCE_ERROR),
                 f, m, NoIo)
    ELSE IF SizeMismatch(s.total_bytes_received, s.total_bytes_expected)
    THEN ExitOut([s EXCEPT !.state = "ERROR"],
                 UDS_CreateNegativeResponse(rq, UDS_NRC_GENERAL_PROGRAMMING_FAILURE),
                 f, m, NoIo)
    ELSE IF s.is_for_this_ecu
    THEN DL_SelfUpdate(s, rq, image, f, m, standby_bank, written, flagOk)
    ELSE IF UDS_Download_RouteToZoneECU(s.target_ecu_id, s.spi_staging_address,
                                        s.total_bytes_received)
    THEN ExitOut([s EXCEPT !.state = "COMPLETED", !.is_active = FALSE],
                 UDS_CreatePositiveResponse(rq, << >>), f, m, NoIo)
    ELSE ExitOut([s EXCEPT !.state = "ERROR"],
                 UDS_CreateNegativeResponse(rq, UDS_NRC_GENERAL_PROGRAMMING_FAILURE),
                 f, m, NoIo)


-----------------------------------------------------------------------------
(* External staging flash, external_flash.c *)

ZONE_PACKAGE_MAX_SIZE == 33554432
CRC_START_OFFSET == 256

\* ExtFlash_CalculateCRC32 over the bytes data of the region: one buffer of
\* ChunkSize bytes at a time, each chunk assigning crc
RECURSIVE CrcChunks(_, _, _)
CrcChunks(data, offset, crc) ==
    IF offset >= Len(data) THEN crc
    ELSE LET chunk_size == Min(Len(data) - offset, ChunkSize)
         IN  CrcChunks(data, offset + ChunkSize,
                       CRC32_Calculate(SubSeq(data, offset + 1, offset + chunk_size)))

ExtFlash_CalculateCRC32(data) == CrcChunks(data, 0, CRC_SEED)

-----------------------------------------------------------------------------
(* Zone package in staging, zone_package.c *)

ZGW_ECU_ID == "ECU_091"

\* the staged container: magic_ok (magic_number = ZONE_PACKAGE_MAGIC), body
\* (the bytes from offset 0x100 to total_size), the stored zone_crc32, the
\* ECU table, the ZGW metadata block and the ZGW firmware bytes
ZonePackage_ParseHeader(p) == p.magic_ok

ZonePackage_ValidateCRC(p) == ExtFlash_CalculateCRC32(p.body) = p.zone_crc32

TableHas(p, ecu_id) == \E i \in 1 .. Len(p.ecu_table) : p.ecu_table[i] = ecu_id

ZonePackage_FindECUMetadata(p, ecu_id) == TableHas(p, ecu_id) /\ p.meta_magic_ok

\* CheckDependencies of the ZGW metadata against the device inventory
CheckDependencies(p) == p.deps_ok

-----------------------------------------------------------------------------
(* OTA manager, ota_manager.c *)

OtaInit == [state |-> "IDLE", total_size |-> 0, downloaded_size |-> 0,
            current_offset |-> 0]

OtaOut(o, ok) == [ota |-> o, ok |-> ok, trap |-> FALSE]

OtaTrap(o) == [ota |-> o, ok |-> FALSE, trap |-> TRUE]

\* the start of a download without the test of the state
OTA_StartDownload_AnyState(o, total_size, eraseOk) ==
    IF total_size > ZONE_PACKAGE_MAX_SIZE THEN OtaOut(o, FALSE)
    ELSE IF ~eraseOk THEN OtaOut(o, FALSE)
    ELSE OtaOut([o EXCEPT !.state = "DOWNLOADING", !.total_size = total_size,
                          !.downloaded_size = 0, !.current_offset = 0], TRUE)

OTA_StartDownload(o, total_size, eraseOk) ==
    IF o.state # "IDLE" THEN OtaOut(o, FALSE)
    ELSE IF total_size > ZONE_PACKAGE_MAX_SIZE THEN OtaOut(o, FALSE)
    ELSE IF ~eraseOk THEN OtaOut(o, FALSE)
    ELSE OtaOut([o EXCEPT !.state = "DOWNLOADING", !.total_size = total_size,
                          !.downloaded_size = 0, !.current_offset = 0], TRUE)

\* trap: the progress log divided by a zero total_size (undefined), ub chooses
OTA_WriteChunk(o, size, writeOk, ub) ==
    IF o.state # "DOWNLOADING" THEN OtaOut(o, FALSE)
    ELSE IF ~writeOk THEN OtaOut([o EXCEPT !.state = "ERROR"], FALSE)
    ELSE LET n == [o EXCEPT !.current_offset = @ + size,
                            !.downloaded_size = @ + size]
             logs == \/ n.downloaded_size % 1048576 = 0
                     \/ n.downloaded_size = n.total_size
         IN  IF logs /\ n.total_size = 0 /\ ub = "trap"
             THEN OtaTrap(n)
             ELSE OtaOut(n, TRUE)

OTA_FinishDownload(o, p) ==
    IF o.state # "DOWNLOADING" THEN OtaOut(o, FALSE)
    ELSE IF o.downloaded_size # o.total_size
    THEN OtaOut([o EXCEPT !.state = "ERROR"], FALSE)
    ELSE IF ~ZonePackage_ParseHeader(p)
    THEN OtaOut([o EXCEPT !.state = "ERROR"], FALSE)
    ELSE IF ~ZonePackage_ValidateCRC(p)
    THEN OtaOut([o EXCEPT !.state = "ERROR"], FALSE)
    ELSE OtaOut([o EXCEPT !.state = "EXTRACTING"], TRUE)

FlashBank_GetStandbyBank == OtherBank(active)

\* the base address of the other bank
OTA_StandbyAddr_Swapped(standbyBank) == IF standbyBank = "A" THEN "B" ELSE "A"

\* standbyAddr = (standbyBank == FLASH_BANK_A) ? APPLICATION_A_START
\*                                             : APPLICATION_B_START
OTA_StandbyAddr(standbyBank) == IF standbyBank = "A" THEN "A" ELSE "B"

\* firmware bytes in chunks of ChunkSize: the chunks written before the
\* first failing FlashBank_WriteSector
ChunkCount(n) == (n + ChunkSize - 1) \div ChunkSize

CopiedPrefix(fw, chunks) == SubSeq(fw, 1, Min(Len(fw), chunks * ChunkSize))

\* the bank after erase, metadata write and chunk writes, of which the
\* first okOps operations take effect
OTA_ProgramBank(old, fw, okOps) ==
    IF okOps = 0 THEN old
    ELSE IF okOps = 1 THEN ErasedBank
    ELSE [meta |-> "metadata", fw |-> CopiedPrefix(fw, okOps - 2)]

\* status.bits.statusB = BANK_STATUS_OK; status.bits.bootTarget = 1
OTA_BootFlags(m) == [m EXCEPT !.statusB = "OK", !.bootTarget = "B"]

InstallOut(o, ok, f, m, i) == [ota |-> o, ok |-> ok, flash |-> f, marker |-> m, io |-> i]

OTA_InstallZGWFirmware(o, p, f, m, standbyBank, okOps, flagOk) ==
    IF o.state # "EXTRACTING" THEN InstallOut(o, FALSE, f, m, NoIo)
    ELSE IF ~ZonePackage_FindECUMetadata(p, ZGW_ECU_ID)
    THEN InstallOut([o EXCEPT !.state = "ERROR"], FALSE, f, m,
                    [NoIo EXCEPT !.attempt = TRUE, !.failed = TRUE])
    ELSE IF ~CheckDependencies(p)
    THEN InstallOut([o EXCEPT !.state = "ERROR"], FALSE, f, m,
                    [NoIo EXCEPT !.attempt = TRUE, !.failed = TRUE])
    ELSE LET standbyAddr == OTA_StandbyAddr(standbyBank)
             ops == 2 + ChunkCount(Len(p.fw))
             done == Min(okOps, ops)
             f1 == [f EXCEPT ![standbyAddr] = OTA_ProgramBank(@, p.fw, done)]
             m1 == IF flagOk THEN OTA_BootFlags(m) ELSE m
         IN  InstallOut([o EXCEPT !.state = "COMPLETE"], TRUE, f1, m1,
                        [NoIo EXCEPT !.attempt = TRUE, !.standby = standbyBank,
                                     !.erased = {standbyAddr},
                                     !.written = {standbyAddr},
                                     !.failed = (done < ops) \/ ~flagOk,
                                     !.committed = flagOk])


-----------------------------------------------------------------------------
(* Distribution to the zone ECUs, ota_manager.c.  h is g_zone_header; each
   entry of its ecu_table carries what staging holds at the entry's offset
   (meta_magic_ok: the metadata magic is right) and whether the inventory
   satisfies the dependencies of that metadata (deps_ok) *)

TableIds(h) == [i \in 1 .. Len(h.ecu_table) |-> h.ecu_table[i].ecu_id]

\* the first entry of the table with this id, 0 when there is none
FirstEntry(h, ecu_id) ==
    LET hits == { i \in 1 .. Len(h.ecu_table) : h.ecu_table[i].ecu_id = ecu_id }
    IN  IF hits = {} THEN 0 ELSE CHOOSE i \in hits : \A j \in hits : i <= j

\* the container as the lookup of ecu_id reads it
PackageFor(h, ecu_id) ==
    LET i == FirstEntry(h, ecu_id)
    IN  [ecu_table |-> TableIds(h),
         meta_magic_ok |-> i # 0 /\ h.ecu_table[i].meta_magic_ok,
         deps_ok |-> i # 0 /\ h.ecu_table[i].deps_ok]

\* every target reported as distributed
OTA_DistributeToZoneECU_Always(h, ecu_id) == TRUE

OTA_DistributeToZoneECU(h, ecu_id) ==
    IF ecu_id = ZGW_ECU_ID THEN TRUE
    ELSE IF ~ZonePackage_FindECUMetadata(PackageFor(h, ecu_id), ecu_id) THEN FALSE
    ELSE IF ~CheckDependencies(PackageFor(h, ecu_id)) THEN FALSE
    ELSE TableHas(PackageFor(h, ecu_id), ecu_id)

NoRun == [targets |-> << >>, failed |-> << >>, success_count |-> 0, fail_count |-> 0,
          result |-> FALSE]

\* the loop of OTA_DistributeAllECUs from entry i; targets and failed are
\* the "Target:" and "Failed:" lines it logs, the counters are uint8
RECURSIVE DistributeFrom(_, _, _)
DistributeFrom(h, i, run) ==
    IF i > Len(h.ecu_table) THEN run
    ELSE LET ecu_id == h.ecu_table[i].ecu_id
             logged == [run EXCEPT !.targets = Append(@, ecu_id)]
         IN  DistributeFrom(h, i + 1,
                 IF OTA_DistributeToZoneECU(h, ecu_id)
                 THEN [logged EXCEPT !.success_count = (@ + 1) % 256]
                 ELSE [logged EXCEPT !.fail_count = (@ + 1) % 256,
                                     !.failed = Append(@, ecu_id)])

OTA_DistributeAllECUs(h) ==
    LET run == DistributeFrom(h, 1, NoRun)
    IN  [run EXCEPT !.result = (run.fail_count = 0)]

-----------------------------------------------------------------------------
(* Inputs *)

FwImage == [i \in 1 .. MaxFw |-> i]

Body == [i \in 1 .. MaxBody |-> i]

LastChunk(data) ==
    SubSeq(data, ((Len(data) - 1) \div ChunkSize) * ChunkSize + 1, Len(data))

DlPackages ==
    { [image |-> FwImage, magic_ok |-> FALSE, body |-> << >>, zone_crc32 |-> W(0, 0),
       ecu_table |-> << >>, meta_magic_ok |-> FALSE, deps_ok |-> FALSE, fw |-> << >>] }

GoodPackage ==
    [image |-> << >>, magic_ok |-> TRUE, body |-> Body,
     zone_crc32 |-> CRC32_Calculate(LastChunk(Body)),
     ecu_table |-> << "ECU_011", ZGW_ECU_ID >>, meta_magic_ok |-> TRUE,
     deps_ok |-> TRUE, fw |-> FwImage]

\* the package ExtFlash_CalculateCRC32 accepts, and that package with one flaw
OtaPackages ==
    { GoodPackage,
      [GoodPackage EXCEPT !.magic_ok = FALSE],
      [GoodPackage EXCEPT !.zone_crc32 = CRC32_Calculate(Body)],
      [GoodPackage EXCEPT !.ecu_table = << "ECU_011" >>],
      [GoodPackage EXCEPT !.meta_magic_ok = FALSE],
      [GoodPackage EXCEPT !.deps_ok = FALSE] }

GoodHeader ==
    [magic_ok |-> TRUE, verify_ok |-> TRUE, target_ecu_id |-> ECU_ID_ZGW,
     payload_size |-> MaxFw, crc32 |-> CRC32_Calculate(FwImage)]

HdrInputs ==
    { GoodHeader,
      [GoodHeader EXCEPT !.magic_ok = FALSE],
      [GoodHeader EXCEPT !.verify_ok = FALSE],
      [GoodHeader EXCEPT !.crc32 = CRC32_Calculate(<< 1 >>)],
      [GoodHeader EXCEPT !.target_ecu_id = ECU_ID_ZONE_1],
      [GoodHeader EXCEPT !.target_ecu_id = "ECU_ID_UNKNOWN"] }

\* dataFormatIdentifier, addressAndLengthFormatIdentifier, address, size
LongSize == SW_HEADER_SIZE + BlockLen

DlReqInputs ==
    { << 0, 0 >>, << 0, 0, 0 >>, << 0, 33, 1, 0 >>, << 0, 33, 1, 0, SW_HEADER_SIZE >>,
      << 0, 33, 1, LongSize \div 256, LongSize % 256 >> }

\* request lengths: the block number and 0, BlockLen or SW_HEADER_SIZE
\* bytes of data
DlLenInputs == {1, 1 + BlockLen, 1 + SW_HEADER_SIZE}

BlockInputs(c) == {1, c, (c + 255) % 256}

UbInputs == {"continue", "trap"}

\* total size, big endian on four bytes
OtaReqInputs ==
    { << >>, << 0, 0, 2 >>, << 0, 0, 0, 0 >>, << 0, 0, 0, 2 >>, << 0, 0, 0, 3 >>,
      << 3, 0, 0, 0 >> }

OtaLenInputs == 0 .. 3

-----------------------------------------------------------------------------
(* Actions: one per handler *)

Study == << crcIn, codec, link, dist, clients, stream >>

DlRequestDownload(inputs) ==
    /\ build = "download"
    /\ \E data \in inputs :
         LET rq == Request(UDS_SID_REQUEST_DOWNLOAD, data, Len(data))
             out == DL_RequestDownload(dl, rq)
         IN  /\ dl' = out.dl
             /\ resp' = out.resp
             /\ req' = rq
    /\ io' = NoIo
    /\ UNCHANGED << build, ota, pkg, flash, active, marker, Study >>

DlTransferData(lens, hdrs) ==
    /\ build = "download"
    /\ \E len \in lens, b \in BlockInputs(dl.block_sequence_counter),
          hdr \in hdrs \cup {NoHeader},
          ub \in IF dl.total_bytes_expected = 0 THEN UbInputs ELSE {"continue"} :
         LET rq == Request(UDS_SID_TRANSFER_DATA,
                           IF len = 0 THEN << >> ELSE << b >>, len)
             out == DL_TransferData(dl, rq, hdr, ub)
         IN  \* the header is the first SW_HEADER_SIZE bytes of the block data
             /\ (hdr = NoHeader) <=> (len - 1 < SW_HEADER_SIZE)
             /\ dl' = out.dl
             /\ resp' = out.resp
             /\ req' = rq
    /\ io' = NoIo
    /\ UNCHANGED << build, ota, pkg, flash, active, marker, Study >>

DlRequestTransferExit ==
    /\ build = "download"
    /\ \E written \in 0 .. MaxFw, flagOk \in BOOLEAN :
         LET rq == Request(UDS_SID_REQUEST_TRANSFER_EXIT, << >>, 0)
             out == DL_RequestTransferExit(dl, rq, pkg.image, flash, marker,
                                           MCU_FlashBank_GetStandby, written, flagOk)
         IN  /\ dl' = out.dl
             /\ resp' = out.resp
             /\ flash' = out.flash
             /\ marker' = out.marker
             /\ io' = out.io
             /\ req' = rq
    /\ UNCHANGED << build, ota, pkg, active, Study >>

\* UDS_Download_Reset
DlReset ==
    /\ build = "download"
    /\ dl' = DlInit
    /\ req' = NoRequest
    /\ resp' = NoResponse
    /\ io' = NoIo
    /\ UNCHANGED << build, ota, pkg, flash, active, marker, Study >>


\* uds_handler.c, the zone package handlers
OTA_RequestDownload(o, rq, eraseOk) ==
    IF rq.data_len < 4
    THEN [ota |-> o, resp |-> UDS_CreateNegativeResponse(rq, UDS_NRC_INCORRECT_MESSAGE_LENGTH)]
    ELSE LET total_size == ParseBigEndian(rq.data, 1, 4, 0)
             out == OTA_StartDownload(o, total_size, eraseOk)
         IN  IF out.ok
             THEN [ota |-> out.ota, resp |-> UDS_CreatePositiveResponse(rq, << >>)]
             ELSE [ota |-> out.ota,
                   resp |-> UDS_CreateNegativeResponse(rq, UDS_NRC_UPLOAD_DOWNLOAD_NOT_ACCEPTED)]

OTA_TransferData(o, rq, writeOk, ub) ==
    IF rq.data_len < 1
    THEN [ota |-> o, resp |-> UDS_CreateNegativeResponse(rq, UDS_NRC_INCORRECT_MESSAGE_LENGTH)]
    ELSE LET block_sequence == rq.data[1]
             data_len == rq.data_len - 1
             out == OTA_WriteChunk(o, data_len, writeOk, ub)
         IN  IF out.trap THEN [ota |-> out.ota, resp |-> NoResponse]
             ELSE IF out.ok
             THEN [ota |-> out.ota,
                   resp |-> UDS_CreatePositiveResponse(rq, << block_sequence >>)]
             ELSE [ota |-> out.ota,
                   resp |-> UDS_CreateNegativeResponse(rq, UDS_NRC_GENERAL_PROGRAMMING_FAILURE)]

\* the response is created before OTA_InstallZGWFirmware runs and the
\* outcome of the installation is only logged
OTA_RequestTransferExit(o, rq, p, f, m, standbyBank, okOps, flagOk) ==
    LET fin == OTA_FinishDownload(o, p)
    IN  IF fin.ok
        THEN LET inst == OTA_InstallZGWFirmware(fin.ota, p, f, m, standbyBank,
                                                okOps, flagOk)
             IN  [ota |-> inst.ota, resp |-> UDS_CreatePositiveResponse(rq, << >>),
                  flash |-> inst.flash, marker |-> inst.marker, io |-> inst.io]
        ELSE [ota |-> fin.ota,
              resp |-> UDS_CreateNegativeResponse(rq, UDS_NRC_GENERAL_PROGRAMMING_FAILURE),
              flash |-> f, marker |-> m, io |-> NoIo]

\* what staging holds at transfer-exit: the container the tester streamed,
\* or erased flash (no magic) when nothing was written after the erase
Staged(o, p) == IF o.downloaded_size >= 1 THEN p ELSE [p EXCEPT !.magic_ok = FALSE]

OtaRequestDownload ==
    /\ build = "ota"
    /\ \E data \in OtaReqInputs, eraseOk \in BOOLEAN :
         LET rq == Request(UDS_SID_REQUEST_DOWNLOAD, data, Len(data))
             out == OTA_RequestDownload(ota, rq, eraseOk)
         IN  /\ ota' = out.ota
             /\ resp' = out.resp
             /\ req' = rq
    /\ io' = NoIo
    /\ UNCHANGED << build, dl, pkg, flash, active, marker, Study >>

OtaTransferData ==
    /\ build = "ota"
    /\ \E len \in OtaLenInputs, b \in {1, 2}, writeOk \in BOOLEAN,
          ub \in IF ota.total_size = 0 THEN UbInputs ELSE {"continue"} :
         LET rq == Request(UDS_SID_TRANSFER_DATA,
                           IF len = 0 THEN << >> ELSE << b >>, len)
             out == OTA_TransferData(ota, rq, writeOk, ub)
         IN  /\ out.ota.downloaded_size <= MaxOta
             /\ ota' = out.ota
             /\ resp' = out.resp
             /\ req' = rq
    /\ io' = NoIo
    /\ UNCHANGED << build, dl, pkg, flash, active, marker, Study >>

OtaRequestTransferExit ==
    /\ build = "ota"
    /\ \E okOps \in 0 .. (2 + ChunkCount(MaxFw)), flagOk \in BOOLEAN :
         LET rq == Request(UDS_SID_REQUEST_TRANSFER_EXIT, << >>, 0)
             out == OTA_RequestTransferExit(ota, rq, Staged(ota, pkg), flash, marker,
                                            FlashBank_GetStandbyBank, okOps, flagOk)
         IN  /\ ota' = out.ota
             /\ resp' = out.resp
             /\ flash' = out.flash
             /\ marker' = out.marker
             /\ io' = out.io
             /\ req' = rq
    /\ UNCHANGED << build, dl, pkg, active, Study >>

\* OTA_Cancel
OtaCancel ==
    /\ build = "ota"
    /\ ota' = OtaInit
    /\ req' = NoRequest
    /\ resp' = NoResponse
    /\ io' = NoIo
    /\ UNCHANGED << build, dl, pkg, flash, active, marker, Study >>

-----------------------------------------------------------------------------
(* Session link, doip_link.c.  conn_pcb is the connection handle: "NULL" or
   the TCP state of the control block it points to; a call records the last
   operation on the link: the link state it found, its return value, what it
   handed to the transport and what it delivered to the on-message callback *)

DOIP_RA_SUCCESS == 16

NoCall == [op |-> "none", from |-> "IDLE", ok |-> FALSE, sent |-> "none",
           delivered |-> "none", disconnected |-> 0]

\* disconnected: how many times the operation invoked the on-disconnected
\* callback
Call(op, from, ok, sent, delivered) ==
    [op |-> op, from |-> from, ok |-> ok, sent |-> sent, delivered |-> delivered,
     disconnected |-> 0]

\* if (link->disconnected_callback != NULL) link->disconnected_callback(link)
Disconnected(call) == [call EXCEPT !.disconnected = @ + 1]

\* DoIP_Link_Init: memset and the configuration
DoIP_Link_Init(role) ==
    [role |-> role, state |-> "IDLE", conn_pcb |-> "NULL", listen_pcb |-> FALSE,
     routing_activated |-> FALSE, call |-> NoCall]

\* DoIP_Link_Start; newOk: tcp_new returned a control block
DoIP_Link_Start(l, newOk) ==
    IF ~newOk THEN [l EXCEPT !.call = Call("start", l.state, FALSE, "none", "none")]
    ELSE IF l.role = "SERVER"
    THEN [l EXCEPT !.listen_pcb = TRUE, !.state = "LISTENING",
                   !.call = Call("start", l.state, TRUE, "none", "none")]
    ELSE [l EXCEPT !.conn_pcb = "SYN_SENT", !.state = "CONNECTING",
                   !.call = Call("start", l.state, TRUE, "none", "none")]

doip_link_accept_callback(l) ==
    IF l.conn_pcb # "NULL"
    THEN [l EXCEPT !.call = Call("accept", l.state, FALSE, "none", "none")]
    ELSE [l EXCEPT !.conn_pcb = "ESTABLISHED", !.state = "CONNECTED",
                   !.call = Call("accept", l.state, TRUE, "none", "none")]

doip_link_connected_callback(l) ==
    [l EXCEPT !.conn_pcb = "ESTABLISHED", !.state = "CONNECTED",
              !.call = Call("connected", l.state, TRUE, "none", "none")]

\* the receive callback with p = NULL (the peer closed) or with one complete
\* message of type p, which the loop hands to recv_callback
doip_link_recv_message(l, p) ==
    IF p = "NULL"
    THEN [l EXCEPT !.state = "IDLE", !.routing_activated = FALSE,
                   !.conn_pcb = "CLOSE_WAIT",
                   !.call = Disconnected(Call("closed", l.state, TRUE, "none", "none"))]
    ELSE [l EXCEPT !.call = Call("recv", l.state, TRUE, "none", p)]

\* the error callback keeping the connection handle
doip_link_error_callback_KeepsHandle(l) ==
    [l EXCEPT !.state = "ERROR",
              !.call = Disconnected(Call("error", l.state, TRUE, "none", "none"))]

doip_link_error_callback(l) ==
    [l EXCEPT !.state = "ERROR", !.conn_pcb = "NULL",
              !.call = Disconnected(Call("error", l.state, TRUE, "none", "none"))]

\* DoIP_Link_Send: TRUE when the bytes were handed to tcp_write and accepted;
\* tcpOk: pbuf_alloc and tcp_write succeed
DoIP_Link_Send(l, tcpOk) ==
    IF l.conn_pcb = "NULL" THEN FALSE
    ELSE IF l.state # "CONNECTED" /\ l.state # "AUTHENTICATED" THEN FALSE
    ELSE tcpOk

Sent(ok, message) == IF ok THEN message ELSE "none"

DoIP_Link_SendRaw(l, tcpOk) ==
    LET ok == DoIP_Link_Send(l, tcpOk)
    IN  [l EXCEPT !.call = Call("send", l.state, ok, Sent(ok, "raw"), "none")]

DoIP_Link_SendRoutingActivation(l, tcpOk) ==
    LET ok == DoIP_Link_Send(l, tcpOk)
    IN  [l EXCEPT !.call = Call("ra_request", l.state, ok, Sent(ok, "ra_request"), "none")]

\* the state is set before DoIP_Link_Send is called
DoIP_Link_SendRoutingActivationResponse(l, response_code, tcpOk) ==
    LET l1 == IF response_code = DOIP_RA_SUCCESS
              THEN [l EXCEPT !.routing_activated = TRUE, !.state = "AUTHENTICATED"]
              ELSE l
        ok == DoIP_Link_Send(l1, tcpOk)
    IN  [l1 EXCEPT !.call = Call("ra_response", l.state, ok, Sent(ok, "ra_response"), "none")]

\* uds_len: 0, a length that fits the buffer ("fits") or one that does not
DoIP_Link_SendDiagnosticMessage(l, uds_len, tcpOk) ==
    LET ok == IF uds_len # "fits" THEN FALSE ELSE DoIP_Link_Send(l, tcpOk)
    IN  [l EXCEPT !.call = Call("diagnostic", l.state, ok, Sent(ok, "diagnostic"), "none")]

DoIP_Link_Close(l) ==
    [l EXCEPT !.conn_pcb = "NULL", !.listen_pcb = FALSE, !.state = "IDLE",
              !.routing_activated = FALSE,
              !.call = Call("close", l.state, TRUE, "none", "none")]

-----------------------------------------------------------------------------
(* Outbound requests to the zone ECUs, uds_handler.c (UDS client) *)

MAX_UDS_CLIENT_CONTEXTS == 8

\* a zeroed UDS_ClientContext: role 0 is the server role
NoContext == [active |-> FALSE, ecu_ip |-> "", link |-> DoIP_Link_Init("SERVER")]

\* the first context that is not active, the first context when all are active
FindFreeContext_First(ctx) ==
    LET free == { i \in 1 .. MAX_UDS_CLIENT_CONTEXTS : ~ctx[i].active }
    IN  IF free = {} THEN 1 ELSE CHOOSE i \in free : \A j \in free : i <= j

\* the loop over g_client_contexts: the first context that is not active,
\* 0 when every context is active
FindFreeContext(ctx) ==
    LET free == { i \in 1 .. MAX_UDS_CLIENT_CONTEXTS : ~ctx[i].active }
    IN  IF free = {} THEN 0 ELSE CHOOSE i \in free : \A j \in free : i <= j

ClientOut(ctx, ok) == [ctx |-> ctx, ok |-> ok]

\* the link of a context without the record of the last operation on it
Quiet(l) == [l EXCEPT !.call = NoCall]

\* UDS_Client_SendRequest.  ecu_ip "NULL" is the null pointer; newOk: tcp_new
\* and tcp_connect succeed; connected: the transport's connected callback
\* ran between DoIP_Link_Start and DoIP_Link_Send; tcpOk: tcp_write succeeds
UDS_Client_SendRequest(ctx, ecu_ip, request_len, newOk, connected, tcpOk) ==
    IF ecu_ip = "NULL" \/ request_len = 0 THEN ClientOut(ctx, FALSE)
    ELSE LET i == FindFreeContext(ctx)
         IN  IF i = 0 THEN ClientOut(ctx, FALSE)
             ELSE
             LET started == DoIP_Link_Start(DoIP_Link_Init("CLIENT"), newOk)
                 l == IF connected THEN doip_link_connected_callback(started)
                      ELSE started
             IN  IF ~started.call.ok
                 THEN ClientOut([ctx EXCEPT ![i] = [active |-> FALSE, ecu_ip |-> ecu_ip,
                                                    link |-> Quiet(started)]], FALSE)
                 ELSE IF ~DoIP_Link_Send(l, tcpOk)
                 THEN ClientOut([ctx EXCEPT ![i] = [active |-> FALSE, ecu_ip |-> ecu_ip,
                                                    link |-> Quiet(DoIP_Link_Close(l))]],
                                FALSE)
                 ELSE ClientOut([ctx EXCEPT ![i] = [active |-> TRUE, ecu_ip |-> ecu_ip,
                                                    link |-> Quiet(l)]], TRUE)

\* the callback without the test that the context is active
UDS_Client_DoIPCallback_AnyContext(ctx, i, data, callbacks) ==
    [ctx |-> [ctx EXCEPT ![i].link = Quiet(DoIP_Link_Close(@)), ![i].active = FALSE],
     callbacks |-> IF Len(data) > 12
                   THEN Append(callbacks, SubSeq(data, 13, Len(data)))
                   ELSE callbacks]

\* UDS_Client_DoIPCallback for the message data (header included) on the
\* link of context i; callbacks: what the caller's callback was invoked with
UDS_Client_DoIPCallback(ctx, i, data, callbacks) ==
    IF ~ctx[i].active THEN [ctx |-> ctx, callbacks |-> callbacks]
    ELSE [ctx |-> [ctx EXCEPT ![i].link = Quiet(DoIP_Link_Close(@)),
                              ![i].active = FALSE],
          callbacks |-> IF Len(data) > 12
                        THEN Append(callbacks, SubSeq(data, 13, Len(data)))
                        ELSE callbacks]

\* the delivery loop of the receive callback on the link of context i: each
\* complete message is handed to UDS_Client_DoIPCallback in turn
RECURSIVE UDS_Client_Deliver(_, _, _, _)
UDS_Client_Deliver(ctx, i, messages, callbacks) ==
    IF messages = << >> THEN [ctx |-> ctx, callbacks |-> callbacks]
    ELSE LET out == UDS_Client_DoIPCallback(ctx, i, Head(messages), callbacks)
         IN  UDS_Client_Deliver(out.ctx, i, Tail(messages), out.callbacks)

\* what the transport did during a request: see UDS_Client_SendRequest
NoEnv == [newOk |-> FALSE, connected |-> FALSE, tcpOk |-> FALSE]

\* call: the last operation on the pool; env is that of a request; context,
\* data (the messages the link delivered) and callbacks are those of an
\* event on a context's link
ClientCall(op, ok, ecu_ip, request_len, env, context, data, callbacks) ==
    [op |-> op, ok |-> ok, ecu_ip |-> ecu_ip, request_len |-> request_len,
     env |-> env, context |-> context, data |-> data, callbacks |-> callbacks]

NoClients == [ctx |-> [i \in 1 .. MAX_UDS_CLIENT_CONTEXTS |-> NoContext],
              call |-> ClientCall("none", FALSE, "", 0, NoEnv, 0, << >>, << >>)]

-----------------------------------------------------------------------------
(* The device under a tester *)

NoCrcIn == [data |-> << >>, changed |-> << >>, pos |-> 0, phase |-> "none",
            crc |-> W(0, 0), crc_changed |-> W(0, 0)]

NoCodec == [phase |-> "none"]

NoLink == DoIP_Link_Init("SERVER")

NoDist == [phase |-> "none"]

NoStream == [phase |-> "none"]

MarkerInit(a) == [bootTarget |-> a, pending |-> FALSE, statusA |-> "OK", statusB |-> "OK"]

Packages(b) == IF b = "download" THEN DlPackages ELSE OtaPackages

Machine(builds) ==
    /\ build \in builds
    /\ active \in Banks
    /\ pkg \in Packages(build)
    /\ dl = DlInit
    /\ ota = OtaInit
    /\ flash = [b \in Banks |-> FactoryBank]
    /\ marker = MarkerInit(active)
    /\ req = NoRequest
    /\ resp = NoResponse
    /\ io = NoIo

Init ==
    /\ Machine({"download", "ota"})
    /\ crcIn = NoCrcIn
    /\ codec = NoCodec
    /\ link = NoLink
    /\ dist = NoDist
    /\ clients = NoClients
    /\ stream = NoStream

Next ==
    \/ DlRequestDownload(DlReqInputs)
    \/ DlTransferData(DlLenInputs, HdrInputs)
    \/ DlRequestTransferExit
    \/ DlReset
    \/ OtaRequestDownload
    \/ OtaTransferData
    \/ OtaRequestTransferExit
    \/ OtaCancel

Spec == Init /\ [][Next]_vars


\* a long download in blocks of one byte, for the wrap of the block counter
WrapSize == SW_HEADER_SIZE + LongBlocks

LongReqInputs == { << 0, 33, 1, WrapSize \div 256, WrapSize % 256 >> }

InitLong ==
    /\ Machine({"download"})
    /\ crcIn = NoCrcIn
    /\ codec = NoCodec
    /\ link = NoLink
    /\ dist = NoDist
    /\ clients = NoClients
    /\ stream = NoStream

NextLong ==
    \/ DlRequestDownload(LongReqInputs)
    \/ DlTransferData({2, 1 + SW_HEADER_SIZE}, {GoodHeader})

SpecLong == InitLong /\ [][NextLong]_vars


-----------------------------------------------------------------------------
(* The container checksum over a staged body and over the body with one
   byte changed *)

ByteInputs == {0, 1, 255}

Bodies == UNION { [1 .. n -> ByteInputs] : n \in 1 .. MaxBody }

\* ZonePackage_ValidateCRC computes the checksum of the staged body
CrcValidate ==
    /\ crcIn.phase = "staged"
    /\ crcIn' = [crcIn EXCEPT !.crc = ExtFlash_CalculateCRC32(crcIn.data),
                              !.phase = "computed"]
    /\ UNCHANGED << build, dl, ota, pkg, flash, active, marker, req, resp, io, codec, link,
                 dist, clients, stream >>

\* one byte of the body is changed in staging and the checksum computed again
CrcChangeByte ==
    /\ crcIn.phase = "computed"
    /\ \E pos \in 1 .. Len(crcIn.data) : \E v \in ByteInputs \ {crcIn.data[pos]} :
         LET changed == [crcIn.data EXCEPT ![pos] = v]
         IN  crcIn' = [crcIn EXCEPT !.changed = changed, !.pos = pos,
                                    !.crc_changed = ExtFlash_CalculateCRC32(changed),
                                    !.phase = "changed"]
    /\ UNCHANGED << build, dl, ota, pkg, flash, active, marker, req, resp, io, codec, link,
                 dist, clients, stream >>

InitCrc ==
    /\ Machine({"download"})
    /\ active = "A"
    /\ codec = NoCodec
    /\ link = NoLink
    /\ dist = NoDist
    /\ clients = NoClients
    /\ stream = NoStream
    /\ crcIn \in { [NoCrcIn EXCEPT !.data = d, !.phase = "staged"] : d \in Bodies }

NextCrc == CrcValidate \/ CrcChangeByte

SpecCrc == InitCrc /\ [][NextCrc]_vars

-----------------------------------------------------------------------------
(* Diagnostic message framing: uds_handler.c and doip_link.c *)

DOIP_HEADER_SIZE == 8
DOIP_PROTOCOL_VERSION == 2
DOIP_INVERSE_VERSION == 253
DOIP_DIAGNOSTIC_MESSAGE == 32769

\* scaled capacities of request->data and of the link's rx_buffer
UDS_MAX_REQUEST_SIZE == MaxReq

DOIP_MAX_MESSAGE_SIZE == RxCap

HiByte(x) == (x \div 256) % 256

LoByte(x) == x % 256

\* the bytes written to buffer, << >> when the function returns 0
UDS_BuildDoIPDiagnostic(response, buffer_size) ==
    LET data_len == Len(response.data)
        payload_len == (4 + 1 + data_len) % 65536
        total_len == (DOIP_HEADER_SIZE + payload_len) % 65536
    IN  IF total_len > buffer_size THEN << >>
        ELSE << DOIP_PROTOCOL_VERSION, DOIP_INVERSE_VERSION,
                HiByte(DOIP_DIAGNOSTIC_MESSAGE), LoByte(DOIP_DIAGNOSTIC_MESSAGE),
                0, 0, HiByte(payload_len), LoByte(payload_len),
                HiByte(response.source_address), LoByte(response.source_address),
                HiByte(response.target_address), LoByte(response.target_address),
                response.service_id >> \o response.data

\* DoIP_ParseHeader: version and inverse version agree; type and length
DoIP_ParseHeader(buf) ==
    [ok |-> buf[1] + buf[2] = 255,
     payloadType |-> buf[3] * 256 + buf[4],
     payloadLength |-> ParseBigEndian(buf, 5, 4, 0)]

\* the loop of doip_link_recv_callback over the accumulated bytes rx:
\* the complete messages handed to the on-message callback and what stays
RECURSIVE DeliverMessages(_, _)
DeliverMessages(rx, delivered) ==
    IF Len(rx) < DOIP_HEADER_SIZE THEN [rx |-> rx, delivered |-> delivered]
    ELSE LET header == DoIP_ParseHeader(rx)
             total_len == DOIP_HEADER_SIZE + header.payloadLength
         IN  IF ~header.ok \/ Len(rx) < total_len
             THEN [rx |-> rx, delivered |-> delivered]
             ELSE DeliverMessages(SubSeq(rx, total_len + 1, Len(rx)),
                                  Append(delivered, SubSeq(rx, 1, total_len)))

\* doip_link_recv_callback with a segment p of the stream
doip_link_recv_callback(rx, p) ==
    LET len == Min(Len(p), DOIP_MAX_MESSAGE_SIZE - Len(rx))
    IN  DeliverMessages(rx \o SubSeq(p, 1, len), << >>)

\* a message on the wire: the 8-byte header, then the payload
Frame(version, inverse, payload) ==
    << version, inverse, HiByte(DOIP_DIAGNOSTIC_MESSAGE), LoByte(DOIP_DIAGNOSTIC_MESSAGE),
       0, 0, 0, Len(payload) >> \o payload

\* the bytes of a sequence of messages, one after the other
RECURSIVE Concat(_)
Concat(messages) ==
    IF messages = << >> THEN << >> ELSE Head(messages) \o Concat(Tail(messages))

NoDiagRequest == [ok |-> FALSE, source_address |-> 0, target_address |-> 0,
                  service_id |-> 0, data_len |-> 0, data |-> << >>]

\* UDS_ParseDoIPDiagnostic on the payload of a message; stale is what
\* request->data held before the call
UDS_ParseDoIPDiagnostic(doip_payload, stale) ==
    IF Len(doip_payload) < 5 THEN NoDiagRequest
    ELSE LET data_len == (Len(doip_payload) - 5) % 65536
         IN  [ok |-> TRUE,
              source_address |-> doip_payload[1] * 256 + doip_payload[2],
              target_address |-> doip_payload[3] * 256 + doip_payload[4],
              service_id |-> doip_payload[5],
              data_len |-> data_len,
              data |-> IF data_len > 0 /\ data_len < UDS_MAX_REQUEST_SIZE
                       THEN SubSeq(doip_payload, 6, 5 + data_len)
                       ELSE [i \in 1 .. data_len |-> stale]]

CodecResponses ==
    { [source_address |-> sa, target_address |-> ta, service_id |-> sid, data |-> d] :
        sa \in {256, 3712}, ta \in {3712, 65535},
        sid \in {UDS_SID_REQUEST_DOWNLOAD + UDS_POSITIVE_RESPONSE_OFFSET,
                 UDS_SID_NEGATIVE_RESPONSE},
        d \in UNION { [1 .. n -> {0, 255}] : n \in 0 .. MaxData } }

CodecStart(r, size) ==
    [phase |-> "response", response |-> r, buffer_size |-> size, wire |-> << >>,
     rx |-> << >>, request |-> NoDiagRequest]

\* the response is serialized into an output buffer of buffer_size bytes
CodecBuild ==
    /\ codec.phase = "response"
    /\ LET bytes == UDS_BuildDoIPDiagnostic(codec.response, codec.buffer_size)
       IN  codec' = [codec EXCEPT !.wire = bytes,
                                  !.phase = IF bytes = << >> THEN "nofit" ELSE "built"]
    /\ UNCHANGED << build, dl, ota, pkg, flash, active, marker, req, resp, io, crcIn, link,
                 dist, clients, stream >>

\* the transport hands the next k bytes of the stream to the link, whose
\* on-message callback parses each complete diagnostic message
CodecRecv ==
    /\ codec.phase \in {"built", "receiving"}
    /\ \E k \in {Min(3, Len(codec.wire)), Min(DOIP_HEADER_SIZE, Len(codec.wire)),
                 Len(codec.wire)}, stale \in {0, 170} :
         LET got == doip_link_recv_callback(codec.rx, SubSeq(codec.wire, 1, k))
             rest == SubSeq(codec.wire, k + 1, Len(codec.wire))
         IN  codec' =
               IF got.delivered # << >>
               THEN LET message == got.delivered[1]
                        parsed == UDS_ParseDoIPDiagnostic(
                                      SubSeq(message, DOIP_HEADER_SIZE + 1, Len(message)),
                                      stale)
                    IN  [codec EXCEPT !.wire = rest, !.rx = got.rx, !.request = parsed,
                                      !.phase = IF parsed.ok THEN "parsed" ELSE "rejected"]
               ELSE [codec EXCEPT !.wire = rest, !.rx = got.rx,
                                  !.phase = IF rest = << >> THEN "stuck" ELSE "receiving"]
    /\ UNCHANGED << build, dl, ota, pkg, flash, active, marker, req, resp, io, crcIn, link,
                 dist, clients, stream >>

InitCodec ==
    /\ Machine({"download"})
    /\ active = "A"
    /\ crcIn = NoCrcIn
    /\ link = NoLink
    /\ dist = NoDist
    /\ clients = NoClients
    /\ stream = NoStream
    /\ codec \in { CodecStart(r, size) :
                     r \in CodecResponses,
                     size \in {DOIP_HEADER_SIZE + 4, DOIP_HEADER_SIZE + 5,
                               DOIP_MAX_MESSAGE_SIZE} }

NextCodec == CodecBuild \/ CodecRecv

SpecCodec == InitCodec /\ [][NextCodec]_vars

-----------------------------------------------------------------------------
(* Dispatcher and the data services, uds_handler.c *)

UDS_SID_READ_DATA_BY_IDENTIFIER == 34
UDS_SID_ROUTINE_CONTROL == 49
UDS_RC_START_ROUTINE == 1
UDS_NRC_SUBFUNCTION_NOT_SUPPORTED == 18
UDS_DID_VCI_ECU_ID == 61844
UDS_DID_VCI_CONSOLIDATED == 61845
UDS_DID_HEALTH_STATUS == 61856
UDS_RID_VCI_COLLECTION_START == 61441
UDS_RID_VCI_SEND_REPORT == 61442
UDS_RID_READINESS_CHECK == 61443
UDS_RID_READINESS_SEND_REPORT == 61444

\* g_service_handlers
ServiceHandlers ==
    << [service_id |-> UDS_SID_READ_DATA_BY_IDENTIFIER, handler |-> "ReadDataByIdentifier"],
       [service_id |-> UDS_SID_ROUTINE_CONTROL, handler |-> "RoutineControl"],
       [service_id |-> UDS_SID_REQUEST_DOWNLOAD, handler |-> "RequestDownload"],
       [service_id |-> UDS_SID_TRANSFER_DATA, handler |-> "TransferData"],
       [service_id |-> UDS_SID_REQUEST_TRANSFER_EXIT, handler |-> "RequestTransferExit"] >>

\* the lookup finding the first entry whatever the service id
FindHandler_First(service_id) == ServiceHandlers[1].handler

\* the loop of UDS_HandleRequest over the table: the first matching entry
FindHandler(service_id) ==
    LET hits == { i \in 1 .. Len(ServiceHandlers) :
                    ServiceHandlers[i].service_id = service_id }
    IN  IF hits = {} THEN "none"
        ELSE ServiceHandlers[CHOOSE i \in hits : \A j \in hits : i <= j].handler

\* the records the data identifiers read: the gateway's own VCI, and the
\* collected tables with their count in front
g_zgw_vci == << 9 >>

UDS_ReadDID_VCI(did, zone_ecu_count) ==
    CASE did = UDS_DID_VCI_ECU_ID       -> [ok |-> TRUE, data |-> g_zgw_vci]
      [] did = UDS_DID_VCI_CONSOLIDATED -> [ok |-> TRUE, data |-> << zone_ecu_count + 1 >>]
      [] did = UDS_DID_HEALTH_STATUS    -> [ok |-> TRUE, data |-> << zone_ecu_count + 1 >>]
      [] OTHER                          -> [ok |-> FALSE, data |-> << >>]

UDS_Service_ReadDataByIdentifier(rq, zone_ecu_count) ==
    IF rq.data_len < 2
    THEN UDS_CreateNegativeResponse(rq, UDS_NRC_INCORRECT_MESSAGE_LENGTH)
    ELSE LET did == rq.data[1] * 256 + rq.data[2]
             read == UDS_ReadDID_VCI(did, zone_ecu_count)
         IN  IF read.ok
             THEN UDS_CreatePositiveResponse(rq, << rq.data[1], rq.data[2] >> \o read.data)
             ELSE UDS_CreateNegativeResponse(rq, UDS_NRC_REQUEST_OUT_OF_RANGE)

\* env: whether the aggregator started, whether the DoIP client is active,
\* whether the report was sent, and the number of collected records
UDS_Service_RoutineControl(rq, env) ==
    IF rq.data_len < 3
    THEN UDS_CreateNegativeResponse(rq, UDS_NRC_INCORRECT_MESSAGE_LENGTH)
    ELSE LET sub_function == rq.data[1]
             routine_id == rq.data[2] * 256 + rq.data[3]
             echo == << sub_function, rq.data[2], rq.data[3] >>
         IN  IF sub_function # UDS_RC_START_ROUTINE
             THEN UDS_CreateNegativeResponse(rq, UDS_NRC_SUBFUNCTION_NOT_SUPPORTED)
             ELSE CASE routine_id \in {UDS_RID_VCI_COLLECTION_START, UDS_RID_READINESS_CHECK} ->
                         UDS_CreatePositiveResponse(rq,
                             echo \o << IF env.started THEN 0 ELSE 1 >>)
                    [] routine_id = UDS_RID_VCI_SEND_REPORT ->
                         UDS_CreatePositiveResponse(rq,
                             IF ~env.active THEN echo \o << 1 >>
                             ELSE IF env.sent THEN echo \o << 0, env.count + 1 >>
                             ELSE echo \o << 2 >>)
                    [] routine_id = UDS_RID_READINESS_SEND_REPORT ->
                         UDS_CreatePositiveResponse(rq,
                             IF ~env.active THEN echo \o << 1 >>
                             ELSE IF env.count > 0
                             THEN echo \o << 0, env.count, 0, 0, 0, 0 >>
                             ELSE echo \o << 2 >>)
                    [] OTHER ->
                         UDS_CreateNegativeResponse(rq, UDS_NRC_REQUEST_OUT_OF_RANGE)

-----------------------------------------------------------------------------
(* The dispatcher under a tester *)

\* service ids the tester sends: the five of the table and two others
DispatchSids ==
    {UDS_SID_READ_DATA_BY_IDENTIFIER, UDS_SID_ROUTINE_CONTROL, UDS_SID_REQUEST_DOWNLOAD,
     UDS_SID_TRANSFER_DATA, UDS_SID_REQUEST_TRANSFER_EXIT, 16, 62}

DidReqInputs ==
    { << >>, << 241, 148 >>, << 241, 149 >>, << 241, 160 >>, << 0, 1 >> }

RoutineReqInputs ==
    { << 1 >>, << 2, 240, 1 >>, << 1, 240, 1 >>, << 1, 240, 2 >>, << 1, 240, 3 >>,
      << 1, 240, 4 >>, << 1, 255, 255 >> }

RoutineEnvs ==
    { [started |-> TRUE, active |-> TRUE, sent |-> TRUE, count |-> 1],
      [started |-> TRUE, active |-> TRUE, sent |-> FALSE, count |-> 0],
      [started |-> FALSE, active |-> FALSE, sent |-> FALSE, count |-> 0] }

\* a handler that touches neither the session nor the banks
Answer(rq, response) ==
    /\ req' = rq
    /\ resp' = response
    /\ io' = NoIo
    /\ UNCHANGED << build, dl, ota, pkg, flash, active, marker, Study >>

ReadDataByIdentifier(sid) ==
    \E data \in DidReqInputs, zone_ecu_count \in {0, 1} :
        LET rq == Request(sid, data, Len(data))
        IN  Answer(rq, UDS_Service_ReadDataByIdentifier(rq, zone_ecu_count))

RoutineControl(sid) ==
    \E data \in RoutineReqInputs, env \in RoutineEnvs :
        LET rq == Request(sid, data, Len(data))
        IN  Answer(rq, UDS_Service_RoutineControl(rq, env))

\* no entry of the table matches
ServiceNotSupported(sid) ==
    \E data \in { << >>, << 1 >> } :
        LET rq == Request(sid, data, Len(data))
        IN  Answer(rq, UDS_CreateNegativeResponse(rq, UDS_NRC_SERVICE_NOT_SUPPORTED))

DispatchDlReqInputs == { << 0, 0, 0 >>, << 0, 33, 1, 0, SW_HEADER_SIZE >> }

UDS_HandleRequest(sid) ==
    LET handler == FindHandler(sid)
    IN  \/ handler = "none" /\ ServiceNotSupported(sid)
        \/ handler = "ReadDataByIdentifier" /\ ReadDataByIdentifier(sid)
        \/ handler = "RoutineControl" /\ RoutineControl(sid)
        \/ handler = "RequestDownload"
           /\ (DlRequestDownload(DispatchDlReqInputs) \/ OtaRequestDownload)
        \/ handler = "TransferData"
           /\ (DlTransferData({1, 1 + SW_HEADER_SIZE}, {GoodHeader}) \/ OtaTransferData)
        \/ handler = "RequestTransferExit"
           /\ (DlRequestTransferExit \/ OtaRequestTransferExit)

HandleRequest == \E sid \in DispatchSids : UDS_HandleRequest(sid)

NextDispatch ==
    \/ HandleRequest
    \/ DlReset
    \/ OtaCancel

InitDispatch ==
    /\ Init
    /\ active = "A"
    /\ pkg \in DlPackages \cup {GoodPackage}

SpecDispatch == InitDispatch /\ [][NextDispatch]_vars

-----------------------------------------------------------------------------
(* One link under its caller, the transport's callbacks and the peer *)

Device == << build, dl, ota, pkg, flash, active, marker, req, resp, io >>

LinkRoles == {"SERVER", "CLIENT"}

\* what the peer can send: a close, or a complete message of one type
PeerInputs == {"NULL", "ra_request", "ra_response", "diagnostic"}

LinkStart ==
    /\ link.state = "IDLE" /\ link.conn_pcb = "NULL" /\ ~link.listen_pcb
    /\ \E newOk \in BOOLEAN : link' = DoIP_Link_Start(link, newOk)
    /\ UNCHANGED << Device, crcIn, codec, dist, clients, stream >>

\* the transport accepted a connection on the listening control block
LinkAccept ==
    /\ link.listen_pcb
    /\ link' = doip_link_accept_callback(link)
    /\ UNCHANGED << Device, crcIn, codec, dist, clients, stream >>

\* the transport completed the connect of the initiator
LinkConnected ==
    /\ link.conn_pcb = "SYN_SENT"
    /\ link' = doip_link_connected_callback(link)
    /\ UNCHANGED << Device, crcIn, codec, dist, clients, stream >>

LinkRecv ==
    /\ link.conn_pcb = "ESTABLISHED"
    /\ \E p \in PeerInputs : link' = doip_link_recv_message(link, p)
    /\ UNCHANGED << Device, crcIn, codec, dist, clients, stream >>

LinkError ==
    /\ link.conn_pcb # "NULL"
    /\ link' = doip_link_error_callback(link)
    /\ UNCHANGED << Device, crcIn, codec, dist, clients, stream >>

LinkSend ==
    /\ \E tcpOk \in BOOLEAN : link' = DoIP_Link_SendRaw(link, tcpOk)
    /\ UNCHANGED << Device, crcIn, codec, dist, clients, stream >>

LinkSendRoutingActivation ==
    /\ \E tcpOk \in BOOLEAN : link' = DoIP_Link_SendRoutingActivation(link, tcpOk)
    /\ UNCHANGED << Device, crcIn, codec, dist, clients, stream >>

LinkSendRoutingActivationResponse ==
    /\ \E response_code \in {DOIP_RA_SUCCESS, 0}, tcpOk \in BOOLEAN :
         link' = DoIP_Link_SendRoutingActivationResponse(link, response_code, tcpOk)
    /\ UNCHANGED << Device, crcIn, codec, dist, clients, stream >>

LinkSendDiagnosticMessage ==
    /\ \E uds_len \in {"zero", "fits", "too large"}, tcpOk \in BOOLEAN :
         link' = DoIP_Link_SendDiagnosticMessage(link, uds_len, tcpOk)
    /\ UNCHANGED << Device, crcIn, codec, dist, clients, stream >>

LinkClose ==
    /\ link' = DoIP_Link_Close(link)
    /\ UNCHANGED << Device, crcIn, codec, dist, clients, stream >>

InitLink ==
    /\ Machine({"download"})
    /\ active = "A"
    /\ crcIn = NoCrcIn
    /\ codec = NoCodec
    /\ link \in { DoIP_Link_Init(role) : role \in LinkRoles }
    /\ dist = NoDist
    /\ clients = NoClients
    /\ stream = NoStream

NextLink ==
    \/ LinkStart
    \/ LinkAccept
    \/ LinkConnected
    \/ LinkRecv
    \/ LinkError
    \/ LinkSend
    \/ LinkSendRoutingActivation
    \/ LinkSendRoutingActivationResponse
    \/ LinkSendDiagnosticMessage
    \/ LinkClose

SpecLink == InitLink /\ [][NextLink]_vars

-----------------------------------------------------------------------------
(* A distribution run over a verified container *)

TargetIds == {ZGW_ECU_ID, "ECU_011", "ECU_012"}

TargetEntries == [ecu_id : TargetIds, meta_magic_ok : BOOLEAN, deps_ok : BOOLEAN]

TargetTables == UNION { [1 .. n -> TargetEntries] : n \in 0 .. MaxTargets }

Distribute ==
    /\ dist.phase = "verified"
    /\ dist' = [dist EXCEPT !.phase = "distributed",
                            !.run = OTA_DistributeAllECUs(dist.header)]
    /\ UNCHANGED << Device, crcIn, codec, link, clients, stream >>

InitDistribute ==
    /\ Machine({"download"})
    /\ active = "A"
    /\ crcIn = NoCrcIn
    /\ codec = NoCodec
    /\ link = NoLink
    /\ clients = NoClients
    /\ stream = NoStream
    /\ dist \in { [phase |-> "verified", header |-> [ecu_table |-> t], run |-> NoRun] :
                    t \in TargetTables }

NextDistribute == Distribute

SpecDistribute == InitDistribute /\ [][NextDistribute]_vars

-----------------------------------------------------------------------------
(* The dependency check of a target against the device inventory,
   ota_manager.c *)

Digits == << "0", "1", "2", "3", "4", "5", "6", "7", "8", "9" >>

IsDigit(c) == \E d \in 1 .. 10 : Digits[d] = c

DigitValue(c) == (CHOOSE d \in 1 .. 10 : Digits[d] = c) - 1

\* atoi on a token that starts with its digits: the value of the leading
\* run of digits
RECURSIVE Atoi(_, _, _)
Atoi(token, i, acc) ==
    IF i > Len(token) \/ ~IsDigit(token[i]) THEN acc
    ELSE Atoi(token, i + 1, 10 * acc + DigitValue(token[i]))

\* strtok from position pos of s: the delimiters before the token are
\* skipped; the token ends at the next delimiter.  token << >> is NULL
RECURSIVE SkipDelims(_, _, _)
SkipDelims(s, pos, delims) ==
    IF pos <= Len(s) /\ s[pos] \in delims THEN SkipDelims(s, pos + 1, delims) ELSE pos

RECURSIVE TokenEnd(_, _, _)
TokenEnd(s, pos, delims) ==
    IF pos <= Len(s) /\ s[pos] \notin delims THEN TokenEnd(s, pos + 1, delims) ELSE pos

Strtok(s, pos, delims) ==
    LET from == SkipDelims(s, pos, delims)
        to == TokenEnd(s, from, delims)
    IN  [token |-> SubSeq(s, from, to - 1), next |-> to + 1]

RECURSIVE OrBits(_, _, _)
OrBits(a, b, n) ==
    IF n = 0 THEN 0
    ELSE (IF (a % 2) + (b % 2) > 0 THEN 1 ELSE 0) + 2 * OrBits(a \div 2, b \div 2, n - 1)

\* (major << 16) | (minor << 8) | patch
PackVersion(major, minor, patch) ==
    OrBits(OrBits(major * 65536, minor * 256, 32), patch, 32)

\* ParseVersionString on the characters of version_str
ParseVersionString(version_str) ==
    LET temp == SubSeq(version_str, 1, Min(Len(version_str), 15))
        start == IF temp # << >> /\ temp[1] \in {"v", "V"} THEN 2 ELSE 1
        t1 == Strtok(temp, start, {"."})
        t2 == Strtok(temp, t1.next, {"."})
        t3 == Strtok(temp, t2.next, {".", "-"})
    IN  PackVersion(Atoi(t1.token, 1, 0), Atoi(t2.token, 1, 0), Atoi(t3.token, 1, 0))

\* FindECUInDatabase: the index of the first device of the inventory with
\* this id, 0 for NULL
FindECUInDatabase(db, ecu_id) ==
    LET hits == { i \in 1 .. Len(db) : db[i].ecu_id = ecu_id }
    IN  IF hits = {} THEN 0 ELSE CHOOSE i \in hits : \A j \in hits : i <= j

\* the loop of CheckDependencies from dependency i on
RECURSIVE DependenciesFrom(_, _, _)
DependenciesFrom(dependencies, db, i) ==
    IF i > Len(dependencies) THEN TRUE
    ELSE LET current_ecu == FindECUInDatabase(db, dependencies[i].ecu_id)
         IN  IF current_ecu = 0 THEN FALSE
             ELSE IF ParseVersionString(db[current_ecu].sw_version)
                       < dependencies[i].min_version
             THEN FALSE
             ELSE DependenciesFrom(dependencies, db, i + 1)

\* CheckDependencies of a metadata block with these dependencies
CheckDependencyList(dependencies, db) == DependenciesFrom(dependencies, db, 1)

\* a number as sprintf("%u") prints it
RECURSIVE Decimal(_)
Decimal(n) ==
    IF n < 10 THEN << Digits[n + 1] >> ELSE Append(Decimal(n \div 10), Digits[(n % 10) + 1])

\* a device's version text for the components v, with the prefix
VersionText(prefix, v) ==
    prefix \o Decimal(v[1]) \o << "." >> \o Decimal(v[2]) \o << "." >> \o Decimal(v[3])

VersionInputs == { << 1, 0, 0 >>, << 1, 1, 0 >>, << 2, 0, 0 >>, << 1, 0, 256 >>,
                   << 0, 9, 300 >> }

DepIds == {"ECU_011", "ECU_012"}

Devices == { [ecu_id |-> id, version |-> v, sw_version |-> VersionText(<< >>, v)] :
               id \in DepIds, v \in VersionInputs }
           \cup { [ecu_id |-> "ECU_011", version |-> << 1, 1, 0 >>,
                   sw_version |-> VersionText(<< "v" >>, << 1, 1, 0 >>) \o << "-", "r", "c" >>] }

Inventories == UNION { [1 .. n -> Devices] : n \in 0 .. MaxInventory }

MinVersions == { 65536, 65792, 2304 }      \* 1.0.0, 1.1.0, 0.9.0

DependencyLists ==
    UNION { [1 .. n -> [ecu_id : DepIds, min_version : MinVersions]] : n \in 0 .. MaxDeps }

\* the dependency check of one target during a distribution
DependencyCheck ==
    /\ dist.phase = "metadata"
    /\ dist' = [dist EXCEPT !.phase = "checked",
                            !.ok = CheckDependencyList(dist.dependencies, dist.db)]
    /\ UNCHANGED << Device, crcIn, codec, link, clients, stream >>

InitDeps ==
    /\ Machine({"download"})
    /\ active = "A"
    /\ crcIn = NoCrcIn
    /\ codec = NoCodec
    /\ link = NoLink
    /\ clients = NoClients
    /\ stream = NoStream
    /\ dist \in { [phase |-> "metadata", dependencies |-> deps, db |-> db, ok |-> FALSE] :
                    deps \in DependencyLists, db \in Inventories }

NextDeps == DependencyCheck

SpecDeps == InitDeps /\ [][NextDeps]_vars

-----------------------------------------------------------------------------
(* The scans of a container's target table and of a target's dependency
   list, with the counts the header and the metadata block declare.  An
   entry past the end of its array is whatever lies behind it in memory: ub
   chooses how the scan takes it *)

MAX_ECUS_IN_ZONE == 16
MAX_DEPENDENCIES == 8

\* the loop of ZonePackage_FindECUMetadata: the entry it stopped at (0: not
\* found) and the last entry it indexed
TableScan(h, ecu_id, ub) ==
    LET match(i) == IF i <= MAX_ECUS_IN_ZONE THEN h.ecu_table[i] = ecu_id
                    ELSE ub = "match"
        hits == {i \in 1 .. h.package_count : match(i)}
    IN  IF hits = {} THEN [found |-> 0, last |-> h.package_count]
        ELSE LET first == CHOOSE i \in hits : \A k \in hits : i <= k
             IN  [found |-> first, last |-> first]

\* OTA_FinishDownload's validation of the header, then the lookup of
\* ecu_id as OTA_InstallZGWFirmware and OTA_DistributeToZoneECU make it
ZonePackage_Lookup(h, ecu_id, ub) ==
    IF ~h.magic_ok THEN [rejected |-> TRUE, found |-> 0, last |-> 0]
    ELSE LET scan == TableScan(h, ecu_id, ub)
         IN  [rejected |-> FALSE, found |-> scan.found, last |-> scan.last]

\* the test CheckDependencies makes of one dependency
DependencyMet(dependency, db) ==
    LET current_ecu == FindECUInDatabase(db, dependency.ecu_id)
    IN  /\ current_ecu # 0
        /\ ParseVersionString(db[current_ecu].sw_version) >= dependency.min_version

\* the loop of CheckDependencies with the count the metadata block
\* declares: its result and the last dependency it indexed
DependencyScan(metadata, db, ub) ==
    LET met(i) == IF i <= MAX_DEPENDENCIES
                  THEN DependencyMet(metadata.dependencies[i], db)
                  ELSE ub = "match"
        misses == {i \in 1 .. metadata.dependency_count : ~met(i)}
    IN  IF misses = {} THEN [ok |-> TRUE, last |-> metadata.dependency_count]
        ELSE [ok |-> FALSE, last |-> CHOOSE i \in misses : \A k \in misses : i <= k]

\* the validation ZonePackage_FindECUMetadata makes of the metadata block,
\* then CheckDependencies
Metadata_Check(metadata, db, ub) ==
    IF ~metadata.magic_ok THEN [rejected |-> TRUE, ok |-> FALSE, last |-> 0]
    ELSE LET scan == DependencyScan(metadata, db, ub)
         IN  [rejected |-> FALSE, ok |-> scan.ok, last |-> scan.last]

\* the counts a uint8 field can declare, around the sizes of the arrays
CountInputs(size) == {0, 1, size - 1, size, size + 1, size + 2, 255}

ScanTables == { [i \in 1 .. MAX_ECUS_IN_ZONE |-> IF i = k THEN ZGW_ECU_ID ELSE "ECU_011"] :
                  k \in {1, 2, MAX_ECUS_IN_ZONE, MAX_ECUS_IN_ZONE + 1} }

ScanHeaders == [magic_ok : BOOLEAN, package_count : CountInputs(MAX_ECUS_IN_ZONE),
                ecu_table : ScanTables]

\* the inventory the dependencies are checked against
ScanInventory == << [ecu_id |-> "ECU_011", version |-> << 1, 0, 0 >>,
                     sw_version |-> VersionText(<< >>, << 1, 0, 0 >>)] >>

ScanDependencies ==
    { [i \in 1 .. MAX_DEPENDENCIES |->
         IF i = k THEN [ecu_id |-> "ECU_012", min_version |-> 65536]
         ELSE [ecu_id |-> "ECU_011", min_version |-> 65536]] :
        k \in {1, MAX_DEPENDENCIES, MAX_DEPENDENCIES + 1} }

ScanMetadata == [magic_ok : BOOLEAN, dependency_count : CountInputs(MAX_DEPENDENCIES),
                 dependencies : ScanDependencies]

UbScan == {"match", "no match"}

TableLookup ==
    /\ dist.phase = "header"
    /\ \E ub \in UbScan :
         dist' = [phase |-> "looked up", header |-> dist.header,
                  out |-> ZonePackage_Lookup(dist.header, ZGW_ECU_ID, ub)]
    /\ UNCHANGED << Device, crcIn, codec, link, clients, stream >>

DependencyListCheck ==
    /\ dist.phase = "metadata block"
    /\ \E ub \in UbScan :
         dist' = [phase |-> "checked", metadata |-> dist.metadata,
                  out |-> Metadata_Check(dist.metadata, ScanInventory, ub)]
    /\ UNCHANGED << Device, crcIn, codec, link, clients, stream >>

InitScan ==
    /\ Machine({"download"})
    /\ active = "A"
    /\ crcIn = NoCrcIn
    /\ codec = NoCodec
    /\ link = NoLink
    /\ clients = NoClients
    /\ stream = NoStream
    /\ dist \in { [phase |-> "header", header |-> h] : h \in ScanHeaders }
               \cup { [phase |-> "metadata block", metadata |-> md] : md \in ScanMetadata }

NextScan == TableLookup \/ DependencyListCheck

SpecScan == InitScan /\ [][NextScan]_vars

-----------------------------------------------------------------------------
(* The client context pool under its callers and the zone ECUs' answers *)

ClientIps == {"NULL", "192.168.1.11"}

\* the context a successful request took
TakenContext(ctx, ok) == IF ok THEN FindFreeContext(ctx) ELSE 0

\* a caller's request with what the transport does during it
SendRequestWith(ecu_ip, request_len, newOk, connected, tcpOk) ==
    LET out == UDS_Client_SendRequest(clients.ctx, ecu_ip, request_len,
                                      newOk, connected, tcpOk)
    IN  /\ clients' = [ctx |-> out.ctx,
                       call |-> ClientCall("send_request", out.ok, ecu_ip, request_len,
                                           [newOk |-> newOk, connected |-> connected,
                                            tcpOk |-> tcpOk],
                                           TakenContext(clients.ctx, out.ok), << >>, << >>)]
        /\ UNCHANGED << Device, crcIn, codec, link, dist, stream >>

ClientSendRequest ==
    \E ecu_ip \in ClientIps, request_len \in {0, 3},
       newOk \in BOOLEAN, connected \in BOOLEAN, tcpOk \in BOOLEAN :
      SendRequestWith(ecu_ip, request_len, newOk, connected, tcpOk)

\* what a zone ECU answers: the address pair, then the diagnostic bytes
Answers == { << 0, 1, 14, 0 >> \o uds : uds \in {<< >>, << 98 >>, << 127, 34 >>} }

AnswerFrames == { Frame(DOIP_PROTOCOL_VERSION, DOIP_INVERSE_VERSION, a) : a \in Answers }

\* a segment with one or two complete messages arrived on the link of
\* context i
ClientResponse ==
    /\ \E i \in 1 .. MAX_UDS_CLIENT_CONTEXTS :
         /\ clients.ctx[i].link.conn_pcb = "ESTABLISHED"
         /\ \E ms \in UNION { [1 .. n -> AnswerFrames] : n \in 1 .. 2 } :
              LET got == DeliverMessages(Concat(ms), << >>)
                  out == UDS_Client_Deliver(clients.ctx, i, got.delivered, << >>)
              IN  clients' = [ctx |-> out.ctx,
                              call |-> ClientCall("response", TRUE, clients.ctx[i].ecu_ip,
                                                  0, NoEnv, i, got.delivered, out.callbacks)]
    /\ UNCHANGED << Device, crcIn, codec, link, dist, stream >>

\* the peer closed the connection of context i: the receive callback with
\* p = NULL
ClientPeerClose ==
    /\ \E i \in 1 .. MAX_UDS_CLIENT_CONTEXTS :
         /\ clients.ctx[i].link.conn_pcb = "ESTABLISHED"
         /\ clients' = [ctx |-> [clients.ctx EXCEPT
                                   ![i].link = Quiet(doip_link_recv_message(@, "NULL"))],
                        call |-> ClientCall("closed", TRUE, clients.ctx[i].ecu_ip, 0, NoEnv, i,
                                            << >>, << >>)]
    /\ UNCHANGED << Device, crcIn, codec, link, dist, stream >>

\* the transport reported an error on the connection of context i
ClientError ==
    /\ \E i \in 1 .. MAX_UDS_CLIENT_CONTEXTS :
         /\ clients.ctx[i].link.conn_pcb # "NULL"
         /\ clients' = [ctx |-> [clients.ctx EXCEPT
                                   ![i].link = Quiet(doip_link_error_callback(@))],
                        call |-> ClientCall("error", TRUE, clients.ctx[i].ecu_ip, 0, NoEnv, i,
                                            << >>, << >>)]
    /\ UNCHANGED << Device, crcIn, codec, link, dist, stream >>

InitClients ==
    /\ Machine({"download"})
    /\ active = "A"
    /\ crcIn = NoCrcIn
    /\ codec = NoCodec
    /\ link = NoLink
    /\ dist = NoDist
    /\ stream = NoStream
    /\ clients = NoClients

NextClients == ClientSendRequest \/ ClientResponse

SpecClients == InitClients /\ [][NextClients]_vars

\* the pool under callers that keep at most MaxOutstanding requests
\* outstanding, with the transport's close and error events; the callers
\* keep calling, and a message that can be delivered to a context's link is
\* eventually delivered
Outstanding == Cardinality({ i \in 1 .. MAX_UDS_CLIENT_CONTEXTS : clients.ctx[i].active })

PoolSendRequest ==
    \E ecu_ip \in ClientIps, request_len \in {0, 3},
       newOk \in BOOLEAN, connected \in BOOLEAN, tcpOk \in BOOLEAN :
      /\ Outstanding < MaxOutstanding \/ ecu_ip = "NULL" \/ request_len = 0
      /\ SendRequestWith(ecu_ip, request_len, newOk, connected, tcpOk)

NextPool ==
    \/ PoolSendRequest
    \/ ClientResponse
    \/ ClientPeerClose
    \/ ClientError

SpecPool ==
    /\ InitClients /\ [][NextPool]_vars
    /\ WF_vars(ClientResponse) /\ WF_vars(PoolSendRequest)

-----------------------------------------------------------------------------
(* The receive path of a link under an inbound byte stream cut into
   segments by the transport *)

Payloads == UNION { [1 .. n -> {7}] : n \in 1 .. MaxPayload }

GoodFrames == { Frame(DOIP_PROTOCOL_VERSION, DOIP_INVERSE_VERSION, pl) : pl \in Payloads }

\* the inverse version does not match the version
BadFrames == { Frame(DOIP_PROTOCOL_VERSION, DOIP_PROTOCOL_VERSION, << 7 >>) }

\* a well-formed message one byte longer than the receive buffer
HugeFrames == { Frame(DOIP_PROTOCOL_VERSION, DOIP_INVERSE_VERSION,
                      [i \in 1 .. DOIP_MAX_MESSAGE_SIZE - DOIP_HEADER_SIZE + 1 |-> 7]) }

StreamStart(messages) ==
    [phase |-> "open", messages |-> messages, wire |-> Concat(messages),
     rx |-> << >>, delivered |-> << >>]

\* the transport hands the next k bytes of the stream to the receive
\* callback, which appends them to rx_buffer and runs its delivery loop
StreamRecv ==
    /\ stream.phase = "open"
    /\ stream.wire # << >>
    /\ \E k \in 1 .. Len(stream.wire) :
         LET got == doip_link_recv_callback(stream.rx, SubSeq(stream.wire, 1, k))
         IN  stream' = [stream EXCEPT !.wire = SubSeq(@, k + 1, Len(@)),
                                      !.rx = got.rx,
                                      !.delivered = @ \o got.delivered]
    /\ UNCHANGED << Device, crcIn, codec, link, dist, clients >>

InitStream ==
    /\ Machine({"download"})
    /\ active = "A"
    /\ crcIn = NoCrcIn
    /\ codec = NoCodec
    /\ link = NoLink
    /\ dist = NoDist
    /\ clients = NoClients
    /\ stream \in { StreamStart(ms) :
                      ms \in UNION { [1 .. n -> GoodFrames \cup BadFrames \cup HugeFrames] :
                                       n \in 1 .. MaxMessages } }

NextStream == StreamRecv

SpecStream == InitStream /\ [][NextStream]_vars

-----------------------------------------------------------------------------
(* Properties *)

IsStep(sid) == req'.service_id = sid

Negative(rq, code) == UDS_CreateNegativeResponse(rq, code)

C2_WrongBlockAlways ==
    [][(/\ build = "download" /\ dl.is_active
        /\ IsStep(UDS_SID_TRANSFER_DATA)
        /\ req'.data_len >= 1
        /\ req'.data[1] # dl.block_sequence_counter)
       => /\ resp' = Negative(req', UDS_NRC_WRONG_BLOCK_SEQUENCE_COUNTER)
          /\ dl'.block_sequence_counter = dl.block_sequence_counter]_vars

\* C2 amended: in an active session, every transfer-data request that
\* carries at least one data byte after the block number and whose block
\* number differs from the expected counter is answered wrong block sequence
\* counter, and the counter is unchanged; a request of the block number
\* alone is answered incorrect message length, the counter unchanged too.
C2_WrongBlockWithData ==
    [][(/\ build = "download" /\ dl.is_active
        /\ IsStep(UDS_SID_TRANSFER_DATA)
        /\ req'.data_len >= 1
        /\ req'.data[1] # dl.block_sequence_counter)
       => /\ resp' = Negative(req', IF req'.data_len >= 2
                                    THEN UDS_NRC_WRONG_BLOCK_SEQUENCE_COUNTER
                                    ELSE UDS_NRC_INCORRECT_MESSAGE_LENGTH)
          /\ dl'.block_sequence_counter = dl.block_sequence_counter]_vars

\* a block out of sequence was refused in the middle of a transfer
C2_Refused ==
    /\ build = "download" /\ dl.is_active
    /\ dl.total_bytes_received > 0
    /\ req.service_id = UDS_SID_TRANSFER_DATA
    /\ req.data_len >= 2
    /\ req.data[1] # dl.block_sequence_counter
    /\ resp = Negative(req, UDS_NRC_WRONG_BLOCK_SEQUENCE_COUNTER)

\* C3: a request-download received while a session is active is answered
\* conditions not correct and leaves every field of the session unchanged.
C3_SecondRequestRejected ==
    [][(build = "download" /\ dl.is_active /\ IsStep(UDS_SID_REQUEST_DOWNLOAD))
       => /\ resp' = Negative(req', UDS_NRC_CONDITIONS_NOT_CORRECT)
          /\ dl' = dl]_vars

\* a well-formed request-download was refused in the middle of a transfer
C3_RefusedMidTransfer ==
    /\ build = "download" /\ dl.is_active
    /\ dl.state = "TRANSFERRING"
    /\ dl.total_bytes_received > 0
    /\ req.service_id = UDS_SID_REQUEST_DOWNLOAD
    /\ req.data_len = 5
    /\ resp = Negative(req, UDS_NRC_CONDITIONS_NOT_CORRECT)

AddressWidth(rq) == rq.data[2] % 16

SizeWidth(rq) == rq.data[2] \div 16

WellFormed(rq) ==
    /\ rq.data_len >= 3
    /\ rq.data_len >= 2 + AddressWidth(rq) + SizeWidth(rq)

\* the size field read as a big-endian number
RECURSIVE BigEndian(_)
BigEndian(bytes) ==
    IF bytes = << >> THEN 0
    ELSE BigEndian(SubSeq(bytes, 1, Len(bytes) - 1)) * 256 + bytes[Len(bytes)]

SizeField(rq) ==
    BigEndian(SubSeq(rq.data, 3 + AddressWidth(rq),
                     2 + AddressWidth(rq) + SizeWidth(rq)))

\* C4: a well-formed request-download (length at least 3 and at least
\* 2 + address width + size width) received while no session is active is
\* answered positively with data 0x20, 0x01, 0x00, and the session becomes
\* active in state requested with the parsed size expected, 0 bytes
\* received, block counter 1 and the header not yet received.
C4_RequestAccepted ==
    [][(/\ build = "download" /\ ~dl.is_active
        /\ IsStep(UDS_SID_REQUEST_DOWNLOAD)
        /\ WellFormed(req'))
       => /\ resp' = [is_positive |-> TRUE,
                      service_id |-> UDS_SID_REQUEST_DOWNLOAD + UDS_POSITIVE_RESPONSE_OFFSET,
                      nrc |-> 0, data |-> << 32, 1, 0 >>]
          /\ dl'.is_active
          /\ dl'.state = "REQUESTED"
          /\ dl'.total_bytes_expected = SizeField(req')
          /\ dl'.total_bytes_received = 0
          /\ dl'.block_sequence_counter = 1
          /\ ~dl'.header_received]_vars

\* a request with a two-byte size was accepted
C4_Accepted ==
    /\ build = "download"
    /\ req.service_id = UDS_SID_REQUEST_DOWNLOAD
    /\ resp.is_positive
    /\ dl.state = "REQUESTED"
    /\ dl.total_bytes_expected = LongSize
    /\ LongSize >= 256

\* C5: the block counter takes the values 1, 2, ..., 255, 1, 2, ...: every
\* accepted transfer-data block advances it by one, 255 is followed by 1,
\* and once a session was requested it is never 0.
C5_CounterCycles ==
    [][/\ (build = "download" /\ IsStep(UDS_SID_TRANSFER_DATA) /\ resp'.is_positive)
          => dl'.block_sequence_counter =
                 IF dl.block_sequence_counter = 255 THEN 1
                 ELSE dl.block_sequence_counter + 1
       /\ dl'.state # "IDLE" => dl'.block_sequence_counter \in 1 .. 255]_vars

\* block 255 was accepted and the counter is 1 again
C5_Wrapped ==
    /\ req.service_id = UDS_SID_TRANSFER_DATA
    /\ resp.is_positive
    /\ resp.data = << 255 >>
    /\ dl.block_sequence_counter = 1
    /\ dl.total_bytes_received = SW_HEADER_SIZE + 254


\* C6: changing any single byte of the checksummed range of a staged
\* container changes the checksum the container checksum routine computes,
\* so validation against the stored checksum rejects the changed container.
C6_ChangeDetected ==
    crcIn.phase = "changed"
    => ~ZonePackage_ValidateCRC([body |-> crcIn.changed, zone_crc32 |-> crcIn.crc])

\* C8: the boot marker is written only as the last step of a self-update
\* whose copy completed and was verified by recomputing the checksum over
\* the bank; a failed attempt leaves the marker as it was.
C8_MarkerAfterVerifiedCopy ==
    [][/\ io'.committed => (io'.verified /\ ~io'.failed)
       /\ io'.failed => marker' = marker]_vars

\* C9: the marker a self-update writes designates the bank it programmed,
\* the standby bank at the start of the update, whichever bank that is.
C9_MarkerDesignatesStandby ==
    [][io'.committed => marker'.bootTarget = io'.standby]_vars

\* C10: when a step of the self-update fails, transfer-exit is answered
\* general programming failure and never positively.
C10_FailureAnswered ==
    [][(IsStep(UDS_SID_REQUEST_TRANSFER_EXIT) /\ io'.attempt /\ io'.failed)
       => resp' = Negative(req', UDS_NRC_GENERAL_PROGRAMMING_FAILURE)]_vars


\* C7: every diagnostic response that fits the output buffer, serialized,
\* passed through the link's receive framer and parsed as a diagnostic
\* message, yields the same source address, target address, service id and
\* payload bytes.
C7_RoundTrip ==
    /\ codec.phase \notin {"stuck", "rejected"}
    /\ codec.phase = "parsed"
       => /\ codec.request.source_address = codec.response.source_address
          /\ codec.request.target_address = codec.response.target_address
          /\ codec.request.service_id = codec.response.service_id
          /\ codec.request.data = codec.response.data

SendOps == {"send", "ra_request", "ra_response", "diagnostic"}

\* C14: no diagnostic message is sent on, or delivered to the on-message
\* callback from, a link that is connected but not yet authenticated.
C14_NoDiagnosticBeforeAuthenticated ==
    link.call.from = "CONNECTED"
    => /\ link.call.sent # "diagnostic"
       /\ link.call.delivered # "diagnostic"

\* C15: a link enters authenticated only from connected and only by a
\* positive routing-activation response that was actually sent, and an
\* authenticated link always has a connection handle.
C15_AuthenticatedAfterExchange ==
    [][/\ (link'.state = "AUTHENTICATED" /\ link.state # "AUTHENTICATED")
          => /\ link.state = "CONNECTED"
             /\ link'.call.op = "ra_response"
             /\ link'.call.sent = "ra_response"
       /\ link'.state = "AUTHENTICATED" => link'.conn_pcb # "NULL"]_vars

\* C16: every send operation (raw send, routing-activation request and
\* response, diagnostic message) called on a link that is neither connected
\* nor authenticated returns failure and hands nothing to the transport.
C16_SendRejectedUnlessConnected ==
    (link.call.op \in SendOps /\ link.call.from \notin {"CONNECTED", "AUTHENTICATED"})
    => /\ ~link.call.ok
       /\ link.call.sent = "none"

GPF(rq) == Negative(rq, UDS_NRC_GENERAL_PROGRAMMING_FAILURE)

\* the container at transfer-exit fails an integrity check: received size
\* against declared size, header magic, or the stored checksum against the
\* CRC-32 of the checksummed bytes
IntegrityFailure ==
    \/ /\ build = "ota" /\ ota.state = "DOWNLOADING"
       /\ \/ ota.downloaded_size # ota.total_size
          \/ ~Staged(ota, pkg).magic_ok
          \/ CRC32_Calculate(pkg.body) # pkg.zone_crc32
    \/ /\ build = "download" /\ dl.is_active
       /\ \/ dl.total_bytes_received # dl.total_bytes_expected
          \/ /\ dl.is_for_this_ecu
             /\ CRC32_Calculate(StagingRead(pkg.image, dl.sw_header.payload_size))
                    # dl.sw_header.crc32

\* C11: a transfer-exit on a container with a wrong header magic, a checksum
\* that does not match, or a received size other than the declared size is
\* answered general programming failure and erases or writes no program bank.
C11_IntegrityFailureAborts ==
    [][(IsStep(UDS_SID_REQUEST_TRANSFER_EXIT) /\ IntegrityFailure)
       => /\ resp' = GPF(req')
          /\ io'.erased = {}
          /\ io'.written = {}]_vars

\* C12: a transfer-exit that passes the size check marks the session
\* complete and clears is_active, whichever branch ran and whatever its
\* outcome.
C12_SessionClearedAfterExit ==
    [][(/\ build = "download" /\ dl.is_active
        /\ IsStep(UDS_SID_REQUEST_TRANSFER_EXIT)
        /\ dl.total_bytes_received = dl.total_bytes_expected)
       => /\ dl'.state = "COMPLETED"
          /\ ~dl'.is_active]_vars

\* a download is in flight
InFlight == IF build = "download" THEN dl.is_active ELSE ota.state # "IDLE"

\* C13: at most one download is in flight: a request-download is accepted
\* only when none is in flight and puts one in flight, and a download in
\* flight ends only by a successful transfer-exit or an explicit reset; so
\* between two accepted request-downloads there is one of those.
C13_OneDownloadInFlight ==
    [][/\ (IsStep(UDS_SID_REQUEST_DOWNLOAD) /\ resp'.is_positive)
          => (~InFlight /\ InFlight')
       /\ (InFlight /\ ~InFlight')
          => \/ IsStep(UDS_SID_REQUEST_TRANSFER_EXIT) /\ resp'.is_positive
             \/ req' = NoRequest]_vars

\* a request-download accepted after an earlier download was installed
C13_SecondDownloadAccepted ==
    /\ build = "download"
    /\ req.service_id = UDS_SID_REQUEST_DOWNLOAD
    /\ resp.is_positive
    /\ dl.is_active /\ dl.state = "REQUESTED"
    /\ marker.pending

TableSids == { ServiceHandlers[i].service_id : i \in 1 .. Len(ServiceHandlers) }

\* C17: every request passed to the dispatcher gets one response, positive
\* (service id = request service id + 0x40) or negative (service id 0x7F,
\* data = rejected service id, response code).
C17_EveryRequestAnswered ==
    [][req' # NoRequest
       => \/ /\ resp'.is_positive
             /\ resp'.service_id = req'.service_id + UDS_POSITIVE_RESPONSE_OFFSET
          \/ /\ ~resp'.is_positive
             /\ resp'.service_id = UDS_SID_NEGATIVE_RESPONSE
             /\ resp'.data = << req'.service_id, resp'.nrc >>]_vars

\* C18: a request whose service id matches no entry of the handler table is
\* answered service not supported and the download session is unchanged.
C18_UnknownServiceRejected ==
    [][(req' # NoRequest /\ req'.service_id \notin TableSids)
       => /\ resp' = Negative(req', UDS_NRC_SERVICE_NOT_SUPPORTED)
          /\ dl' = dl
          /\ ota' = ota]_vars

\* an unknown service was rejected in the middle of a transfer
C18_Rejected ==
    /\ req.service_id \notin TableSids
    /\ req # NoRequest
    /\ resp = Negative(req, UDS_NRC_SERVICE_NOT_SUPPORTED)
    /\ dl.is_active /\ dl.state = "TRANSFERRING"

\* C19: a transfer-exit in an active session whose received total differs
\* from the expected total is answered general programming failure, puts the
\* session in state error and touches neither the banks nor the marker.
C19_IncompleteExitFails ==
    [][/\ (/\ build = "download" /\ dl.is_active
           /\ IsStep(UDS_SID_REQUEST_TRANSFER_EXIT)
           /\ dl.total_bytes_received # dl.total_bytes_expected)
          => /\ resp' = GPF(req')
             /\ dl'.state = "ERROR"
             /\ io' = NoIo /\ flash' = flash /\ marker' = marker
       /\ (/\ build = "ota" /\ ota.state = "DOWNLOADING"
           /\ IsStep(UDS_SID_REQUEST_TRANSFER_EXIT)
           /\ ota.downloaded_size # ota.total_size)
          => /\ resp' = GPF(req')
             /\ ota'.state = "ERROR"
             /\ io' = NoIo /\ flash' = flash /\ marker' = marker]_vars

\* a transfer-exit was refused after the header block of a longer download
C19_IncompleteExit ==
    /\ build = "download"
    /\ req.service_id = UDS_SID_REQUEST_TRANSFER_EXIT
    /\ resp = GPF(req)
    /\ dl.state = "ERROR" /\ dl.is_active
    /\ dl.total_bytes_received = SW_HEADER_SIZE
    /\ dl.total_bytes_expected > SW_HEADER_SIZE

\* request-download while active, transfer-data with no session, or a block
\* out of order
SequencingViolation ==
    /\ build = "download"
    /\ \/ IsStep(UDS_SID_REQUEST_DOWNLOAD) /\ dl.is_active
       \/ IsStep(UDS_SID_TRANSFER_DATA) /\ ~dl.is_active
       \/ /\ IsStep(UDS_SID_TRANSFER_DATA) /\ dl.is_active
          /\ req'.data_len >= 1
          /\ req'.data[1] # dl.block_sequence_counter

NegativeAnswer == ~resp'.is_positive /\ resp'.service_id = UDS_SID_NEGATIVE_RESPONSE

\* C20 as stated: a sequencing violation is answered negatively and leaves
\* the session in state error.
C20_ViolationLeavesError ==
    [][SequencingViolation => (NegativeAnswer /\ dl'.state = "ERROR")]_vars

\* C20 amended: a sequencing violation is answered negatively and leaves
\* every field of the session as it was, its state included.
C20_ViolationLeavesSession ==
    [][SequencingViolation => (NegativeAnswer /\ dl' = dl)]_vars

\* block 1 was sent again after it had been accepted; the session still
\* expects block 2 and is transferring
C20_StillTransferring ==
    /\ build = "download"
    /\ req.service_id = UDS_SID_TRANSFER_DATA
    /\ req.data_len >= 2 /\ req.data[1] = 1
    /\ resp = Negative(req, UDS_NRC_WRONG_BLOCK_SEQUENCE_COUNTER)
    /\ dl.is_active /\ dl.state = "TRANSFERRING"
    /\ dl.block_sequence_counter = 2

\* the lookup of a target's metadata or its dependency check fails
TargetFails(h, i) ==
    LET ecu_id == h.ecu_table[i].ecu_id
        first == CHOOSE j \in 1 .. i : /\ h.ecu_table[j].ecu_id = ecu_id
                                       /\ \A k \in 1 .. (j - 1) : h.ecu_table[k].ecu_id # ecu_id
    IN  /\ ecu_id # ZGW_ECU_ID
        /\ ~(h.ecu_table[first].meta_magic_ok /\ h.ecu_table[first].deps_ok)

FailingTargets(h) == { i \in 1 .. Len(h.ecu_table) : TargetFails(h, i) }

\* C21: a distribution run processes every entry of the target table in
\* stored order; a target whose metadata lookup or dependency check fails
\* is counted as failed and the following targets are still processed; the
\* run returns success if and only if no target failed.
C21_EveryTargetProcessed ==
    dist.phase = "distributed"
    => /\ dist.run.targets = TableIds(dist.header)
       /\ dist.run.fail_count = Cardinality(FailingTargets(dist.header))
       /\ dist.run.success_count + dist.run.fail_count = Len(dist.header.ecu_table)
       /\ dist.run.result <=> (FailingTargets(dist.header) = {})

\* a run whose first target failed its lookup, whose second failed its
\* dependencies and whose third was distributed
C21_SiblingDistributed ==
    /\ dist.phase = "distributed"
    /\ Len(dist.header.ecu_table) = 3
    /\ FailingTargets(dist.header) = {1, 2}
    /\ ~dist.header.ecu_table[1].meta_magic_ok
    /\ dist.header.ecu_table[2].meta_magic_ok
    /\ dist.run.targets[3] = "ECU_012"
    /\ dist.run.success_count = 1
    /\ dist.run.fail_count = 2
    /\ ~dist.run.result

AllActive(ctx) == \A i \in 1 .. MAX_UDS_CLIENT_CONTEXTS : ctx[i].active

\* C22: at most 8 client contexts are active at any time; an outbound
\* request made when all are active returns failure and leaves every
\* context as it was.
C22_PoolExhaustionReported ==
    [][/\ Cardinality({ i \in DOMAIN clients'.ctx : clients'.ctx[i].active }) <= 8
       /\ (AllActive(clients.ctx) /\ clients'.call.op = "send_request")
          => /\ ~clients'.call.ok
             /\ clients'.ctx = clients.ctx]_vars

\* a well-formed request was refused with all eight contexts active and
\* connected
C22_Exhausted ==
    /\ AllActive(clients.ctx)
    /\ clients.call.op = "send_request"
    /\ ~clients.call.ok
    /\ clients.call.ecu_ip # "NULL"
    /\ clients.call.request_len > 0
    /\ \A i \in 1 .. MAX_UDS_CLIENT_CONTEXTS : clients.ctx[i].link.state = "CONNECTED"


\* C23: once the download session is in state error it stays in error until
\* an explicit reset: no later request-download, transfer-data or
\* transfer-exit moves it to another state or completes the download.
C23_ErrorUntilReset ==
    [][(build = "download" /\ dl.state = "ERROR" /\ req' # NoRequest)
       => /\ dl'.state = "ERROR"
          /\ ~(IsStep(UDS_SID_REQUEST_TRANSFER_EXIT) /\ resp'.is_positive)]_vars

\* the transfer-data block accepted by the previous request is sent again
RepeatsAcceptedBlock ==
    /\ req.service_id = UDS_SID_TRANSFER_DATA
    /\ resp.is_positive
    /\ IsStep(UDS_SID_TRANSFER_DATA)
    /\ req' = req
    /\ req.data_len >= 2

\* C24: a transfer-data block that repeats the sequence number of the block
\* just accepted is answered wrong block sequence counter and its payload is
\* not written again: the received total and the staging offset are
\* unchanged.
C24_DuplicateBlockRejected ==
    [][RepeatsAcceptedBlock
       => /\ resp' = Negative(req', UDS_NRC_WRONG_BLOCK_SEQUENCE_COUNTER)
          /\ dl'.total_bytes_received = dl.total_bytes_received
          /\ dl'.flash_current_address = dl.flash_current_address
          /\ ota'.downloaded_size = ota.downloaded_size
          /\ ota'.current_offset = ota.current_offset]_vars

\* the in-sequence block 1 of a session without a header carries a valid
\* container header (kept in sw_header) that names an unrecognized target
UnknownTargetBlock ==
    /\ build = "download" /\ dl.is_active
    /\ IsStep(UDS_SID_TRANSFER_DATA)
    /\ req'.data_len >= 1 + SW_HEADER_SIZE
    /\ req'.data[1] = 1 /\ dl.block_sequence_counter = 1
    /\ ~dl.header_received
    /\ dl'.sw_header.magic_ok /\ dl'.sw_header.verify_ok
    /\ StagingAddressOf(dl'.sw_header.target_ecu_id) < 0

\* C25: a block 1 whose container header names an unrecognized target is
\* answered request out of range and is not recorded as a received header:
\* header_received stays false and no staging address is assigned.
C25_UnknownTargetNotRecorded ==
    [][UnknownTargetBlock
       => /\ resp' = Negative(req', UDS_NRC_REQUEST_OUT_OF_RANGE)
          /\ ~dl'.header_received
          /\ dl'.spi_staging_address = dl.spi_staging_address
          /\ dl'.flash_current_address = dl.flash_current_address]_vars

C27_NoSessionRejected ==
    [][(/\ build = "download" /\ ~dl.is_active
        /\ (IsStep(UDS_SID_TRANSFER_DATA) \/ IsStep(UDS_SID_REQUEST_TRANSFER_EXIT)))
       => /\ resp' = Negative(req', UDS_NRC_REQUEST_SEQUENCE_ERROR)
          /\ dl' = dl
          /\ flash' = flash /\ marker' = marker /\ io' = NoIo]_vars

\* a transfer-exit was refused after the download had been completed
C27_ExitWithoutSession ==
    /\ build = "download" /\ ~dl.is_active
    /\ dl.state = "COMPLETED"
    /\ req.service_id = UDS_SID_REQUEST_TRANSFER_EXIT
    /\ resp = Negative(req, UDS_NRC_REQUEST_SEQUENCE_ERROR)

WellFormed_Stream ==
    \A i \in 1 .. Len(stream.messages) : stream.messages[i] \in GoodFrames

\* C28: however a stream of complete messages is cut into segments, the
\* on-message callback gets the messages of the stream one by one, in stream
\* order, each with exactly its bytes and never a partial message; what was
\* delivered is removed from the buffer and the bytes not yet delivered are
\* kept in order, so that every message is delivered once.
C28_EveryMessageDeliveredOnce ==
    (stream.phase = "open" /\ WellFormed_Stream)
    => /\ Len(stream.delivered) <= Len(stream.messages)
       /\ stream.delivered = SubSeq(stream.messages, 1, Len(stream.delivered))
       /\ stream.rx \o stream.wire =
              Concat(SubSeq(stream.messages, Len(stream.delivered) + 1,
                            Len(stream.messages)))

\* C29: a message with a malformed framing header, once received in full,
\* is handed to the on-message callback, where the negative response to the
\* sender is produced; it is not left unanswered.
C29_MalformedHeaderAnswered ==
    (/\ stream.phase = "open"
     /\ stream.messages[1] \in BadFrames
     /\ stream.wire = << >>)
    => stream.delivered # << >>

\* C30: when the transport reports a peer close the link goes to idle with
\* the authenticated flag cleared, when it reports an error the link goes
\* to error with the connection handle released; either way the link has
\* left connected / authenticated and the on-disconnected callback fired
\* once for the event, and it fires on no other operation.
C30_DisconnectReported ==
    [][/\ link'.call.op = "closed"
          => /\ link'.state = "IDLE"
             /\ ~link'.routing_activated
             /\ link'.call.disconnected = 1
       /\ link'.call.op = "error"
          => /\ link'.state = "ERROR"
             /\ link'.conn_pcb = "NULL"
             /\ link'.call.disconnected = 1
       /\ link'.call.op \notin {"closed", "error"} => link'.call.disconnected = 0]_vars

\* the transport reported an error on an authenticated link
C30_ErrorWhileAuthenticated ==
    /\ link.call.op = "error"
    /\ link.call.from = "AUTHENTICATED"
    /\ link.state = "ERROR"
    /\ link.conn_pcb = "NULL"
    /\ link.call.disconnected = 1

\* C31: when the response to a sent request arrives, the caller's callback
\* is invoked exactly once, with the bytes that follow the 8-byte header and
\* the 4-byte address pair; the link is then closed and the context is free.
C31_ResponseDeliveredOnce ==
    [][(/\ clients'.call.op = "response"
        /\ clients.ctx[clients'.call.context].active
        /\ Len(Head(clients'.call.data)) > DOIP_HEADER_SIZE + 4)
       => LET i == clients'.call.context
              message == Head(clients'.call.data)
          IN  /\ Len(clients'.call.callbacks) = 1
              /\ message = SubSeq(message, 1, DOIP_HEADER_SIZE + 4)
                              \o clients'.call.callbacks[1]
              /\ ~clients'.ctx[i].active
              /\ clients'.ctx[i].link.state = "IDLE"
              /\ clients'.ctx[i].link.conn_pcb = "NULL"
              /\ \A j \in 1 .. MAX_UDS_CLIENT_CONTEXTS :
                    j # i => clients'.ctx[j] = clients.ctx[j]]_vars

\* a response and a further message arrived in one segment; the callback
\* got the two diagnostic bytes of the response
C31_Answered ==
    /\ clients.call.op = "response"
    /\ Len(clients.call.data) = 2
    /\ Len(clients.call.data[2]) > DOIP_HEADER_SIZE + 4
    /\ clients.call.callbacks = << << 127, 34 >> >>
    /\ ~clients.ctx[clients.call.context].active

\* C32: with a free context and a link that initialised and started, the
\* request helper transmits the request and returns success although the
\* connection completes only later, through the connected callback.
C32_SentBeforeConnected ==
    [][(/\ clients'.call.op = "send_request"
        /\ clients'.call.ecu_ip # "NULL"
        /\ clients'.call.request_len > 0
        /\ ~AllActive(clients.ctx)
        /\ clients'.call.env.newOk
        /\ ~clients'.call.env.connected
        /\ clients'.call.env.tcpOk)
       => clients'.call.ok]_vars

\* C38: every client context that an outbound request marked active is
\* eventually free again, whether the connection fails, the transport
\* reports an error, the peer closes or no response arrives.
C38_ContextEventuallyFree ==
    \A i \in 1 .. MAX_UDS_CLIENT_CONTEXTS :
      clients.ctx[i].active ~> ~clients.ctx[i].active

\* C33: for every container size, checksum validation accepts a container
\* exactly when its stored checksum is the standard reflected CRC-32 of all
\* bytes from offset 0x100 to the declared total size.
C33_AcceptsExactlyStandardChecksum ==
    crcIn.phase = "computed"
    => \A stored \in {crcIn.crc, CRC32_Calculate(crcIn.data)} :
         ZonePackage_ValidateCRC([body |-> crcIn.data, zone_crc32 |-> stored])
           <=> (stored = CRC32_Calculate(crcIn.data))

\* the version of a device as the claim reads it: each component truncated
\* to 8 bits, major in bits 16-23, minor in bits 8-15, patch in bits 0-7
TruncatedVersion(v) == (v[1] % 256) * 65536 + (v[2] % 256) * 256 + (v[3] % 256)

Satisfied(dependency, db) ==
    \E d \in 1 .. Len(db) :
      /\ db[d].ecu_id = dependency.ecu_id
      /\ \A e \in 1 .. d - 1 : db[e].ecu_id # dependency.ecu_id
      /\ TruncatedVersion(db[d].version) >= dependency.min_version

\* C34: a dependency is satisfied exactly when the named device is in the
\* inventory and its version, packed from the 8-bit truncations of major,
\* minor and patch, is at least the declared minimum; the check of a target
\* succeeds exactly when all its dependencies are satisfied.
C34_DependenciesByTruncatedVersion ==
    dist.phase = "checked"
    => (dist.ok <=> \A i \in 1 .. Len(dist.dependencies) :
                      Satisfied(dist.dependencies[i], dist.db))

\* C35: in every reachable state of a download the bytes received do not
\* exceed the bytes declared at request-download, after block 1 as after
\* later blocks, and the OTA manager's downloaded size does not exceed its
\* total size.
C35_ReceivedWithinDeclared ==
    /\ (build = "download" /\ dl.is_active)
         => dl.total_bytes_received <= dl.total_bytes_expected
    /\ (build = "ota" /\ ota.state = "DOWNLOADING")
         => ota.downloaded_size <= ota.total_size

\* C36: the framer does not stall for good: after bytes that begin with an
\* invalid header, or with a header declaring a message larger than the
\* receive buffer, a complete valid message that arrives later on the link
\* is still delivered to the on-message callback.
C36_LaterMessageDelivered ==
    (/\ stream.phase = "open"
     /\ Len(stream.messages) = 2
     /\ stream.messages[1] \in BadFrames \cup HugeFrames
     /\ stream.messages[2] \in GoodFrames
     /\ stream.wire = << >>)
    => \E i \in 1 .. Len(stream.delivered) : stream.delivered[i] = stream.messages[2]

\* C37: after the peer closed the connection of a listening link, the link
\* accepts the next incoming connection: the handle of the closed
\* connection does not make the accept callback reject it as busy.
C37_AcceptAfterPeerClose ==
    [][(/\ link.role = "SERVER"
        /\ link.call.op = "closed"
        /\ link'.call.op = "accept")
       => /\ link'.call.ok
          /\ link'.state = "CONNECTED"]_vars

\* the steps of the OTA manager's state that one request may take
OtaAdvances ==
    { << "IDLE", "DOWNLOADING" >>, << "DOWNLOADING", "ERROR" >>,
      << "DOWNLOADING", "COMPLETE" >> }

\* C39: the OTA manager's state only advances idle, downloading, verifying,
\* extracting, installing, complete, or goes to error: a download starts
\* only from idle, chunks are written and the download is finished only in
\* downloading, the installation starts only after the download was
\* finished with the container's magic and checksum validated, and from
\* error or complete nothing is accepted until a cancel returns to idle.
C39_OtaStateAdvances ==
    [][(build = "ota" /\ req' # NoRequest)
       => /\ ota'.state = ota.state \/ << ota.state, ota'.state >> \in OtaAdvances
          /\ (IsStep(UDS_SID_REQUEST_DOWNLOAD) /\ resp'.is_positive)
               => (ota.state = "IDLE" /\ ota'.state = "DOWNLOADING")
          /\ (IsStep(UDS_SID_TRANSFER_DATA) /\ resp'.is_positive)
               => (ota.state = "DOWNLOADING" /\ ota'.state = "DOWNLOADING")
          /\ (IsStep(UDS_SID_REQUEST_TRANSFER_EXIT) /\ resp'.is_positive)
               => ota.state = "DOWNLOADING"
          /\ io'.attempt
               => /\ IsStep(UDS_SID_REQUEST_TRANSFER_EXIT)
                  /\ ota.state = "DOWNLOADING"
                  /\ ota.downloaded_size = ota.total_size
                  /\ ZonePackage_ParseHeader(Staged(ota, pkg))
                  /\ ZonePackage_ValidateCRC(Staged(ota, pkg))
          /\ (ota.state # "COMPLETE" /\ ota'.state = "COMPLETE") => io'.attempt
          /\ ota.state \in {"ERROR", "COMPLETE"}
               => /\ ota' = ota
                  /\ ~resp'.is_positive
                  /\ ~io'.attempt
                  /\ flash' = flash /\ marker' = marker]_vars

\* a completed update refused a further block
C39_RefusedAfterComplete ==
    /\ build = "ota"
    /\ ota.state = "COMPLETE"
    /\ req.service_id = UDS_SID_TRANSFER_DATA
    /\ resp = Negative(req, UDS_NRC_GENERAL_PROGRAMMING_FAILURE)

\* C40: every scan of the target table and of a dependency list indexes
\* only entries of its array, at most 16 targets and at most 8
\* dependencies: a header or metadata block that declares a larger count
\* is rejected by the validator before a scan uses it.
C40_ScansWithinArrays ==
    /\ dist.phase = "looked up"
         => /\ dist.out.last <= MAX_ECUS_IN_ZONE
            /\ dist.header.package_count > MAX_ECUS_IN_ZONE => dist.out.rejected
    /\ dist.phase = "checked"
         => /\ dist.out.last <= MAX_DEPENDENCIES
            /\ dist.metadata.dependency_count > MAX_DEPENDENCIES => dist.out.rejected


=============================================================================
